---- MODULE Spec2Model ----
(***************************************************************************)
(* A model of src/src/multi/knowledge_base.py: the chunker (_chunk), the   *)
(* module-level vector store (_STORE) and its operations clear, index and  *)
(* search, with the embedding provider (_embed) as a nondeterministic      *)
(* external collaborator.                                                  *)
(*                                                                         *)
(* Texts are strings; TLC evaluates Len, \o and SubSeq on strings.         *)
(* Embedding vectors are tuples of integers whose Euclidean norms are      *)
(* integers, and a cosine score is the exact fraction dots / norms that    *)
(* the code computes in floating point.                                    *)
(***************************************************************************)
EXTENDS Integers, Sequences, FiniteSets, TLC

VARIABLES
    _STORE,      \* knowledge_base._STORE: the list of stored entries
    fs,          \* the file system index() looks at: path -> file content
    environ,     \* os.environ: the variables that are set, name -> value
    lastOp,      \* the last public call: arguments, outcome, provider calls
    _VECTOR_STORE_ID,  \* file_store._VECTOR_STORE_ID
    _ASSISTANT_ID,     \* file_store._ASSISTANT_ID
    asked,       \* the last call of kb_agent.ask: its requests and outcome
    queried,     \* the last direct call of file_store.query_openai
    ran,         \* the last call of linear.orchestrator.run: its calls and result
    agent,       \* a SimulationAgent: provider, max_iterations, history
    simOp,       \* the last call of a method of the agent and its outcome
    indexer,     \* a thread in index(): its position and locals
    searcher,    \* a thread in search(): its position and locals
    messages,    \* the message list a caller of complete_with_knowledge holds
    wrapped,     \* the last call of complete_with_knowledge: what it did
    text,        \* _chunk: the argument `text`
    chunk_size,  \* _chunk: the argument `chunk_size`
    overlap,     \* _chunk: the argument `overlap`
    i,           \* _chunk: the local `i` (window start)
    idx,         \* _chunk: the local `idx`
    chunks,      \* _chunk: the local `chunks`
    pc           \* _chunk: "idle", "loop" (at the while test) or "returned"

\* What no call of the knowledge base assigns.
threadVars == <<indexer, searcher>>
agentVars == <<_VECTOR_STORE_ID, _ASSISTANT_ID, asked>>
restVars == <<fs, environ, agentVars, threadVars>>
wrapperVars == <<messages, wrapped>>
fileVars == <<queried>>
linearVars == <<ran>>
simVars == <<agent, simOp>>
otherVars == <<wrapperVars, fileVars, linearVars, simVars>>
storeVars == <<_STORE, restVars, lastOp, otherVars>>
chunkVars == <<text, chunk_size, overlap, i, idx, chunks, pc>>
notWrapperVars == <<chunkVars, fileVars, linearVars, simVars>>
notFileVars == <<chunkVars, wrapperVars, linearVars, simVars>>
notLinearVars == <<chunkVars, wrapperVars, fileVars, simVars>>
notSimVars == <<chunkVars, wrapperVars, fileVars, linearVars>>
vars == <<_STORE, fs, environ, lastOp, _VECTOR_STORE_ID, _ASSISTANT_ID, asked,
          indexer, searcher, messages, wrapped, queried, ran, agent, simOp,
          text, chunk_size, overlap, i,
          idx, chunks, pc>>

----------------------------------------------------------------------------
(* Bounds of the model *)

MaxTextLen == 5      \* longest text handed to _chunk in SpecChunk
MaxChunkSize == 4    \* largest chunk_size (and overlap) in SpecChunk
MaxStore == 3        \* index() is not started when it would exceed this size
MaxInputs == 2       \* longest `paths` list handed to index()

(* Program constants *)

DEFAULT_CHUNK_SIZE == 800   \* _chunk's default chunk_size
DEFAULT_OVERLAP == 100      \* _chunk's default overlap
DEFAULT_TOP_K == 5          \* search's default top_k

----------------------------------------------------------------------------
(* Python helpers *)

Min(a, b) == IF a < b THEN a ELSE b

\* A slice bound k of a sequence of length n, as Python normalises it.
PyIndex(n, k) ==
    IF k < 0 THEN (IF k + n < 0 THEN 0 ELSE k + n)
    ELSE IF k > n THEN n ELSE k

\* s[a:b] for a string or a tuple s; positions are 0-based as in Python.
PySlice(s, a, b) ==
    LET lo == PyIndex(Len(s), a)
        hi == PyIndex(Len(s), b)
    IN  SubSeq(s, lo + 1, IF hi < lo THEN lo ELSE hi)

\* s[a:] and s[:b]
PyFrom(s, a) == PySlice(s, a, Len(s))
PyUpTo(s, b) == PySlice(s, 0, b)

----------------------------------------------------------------------------
(* _chunk *)

\* The dict appended at line 84.
ChunkDict(content, source, title, index) ==
    [content |-> content, source |-> source, title |-> title,
     chunk_index |-> index]

\* Mutant: the next window starts at the end of this one (the overlap is lost).
ChunkIterNoOverlap(txt, source, title, size, ovl, st) ==
    LET end == Min(st.i + size, Len(txt))
    IN  [i |-> end,
         idx |-> st.idx + 1,
         chunks |-> Append(st.chunks,
                           ChunkDict(PySlice(txt, st.i, end), source, title, st.idx))]

\* Mutant: the next window starts one character too early.
ChunkIterOffByOne(txt, source, title, size, ovl, st) ==
    LET end == Min(st.i + size, Len(txt))
    IN  [i |-> IF end < Len(txt) THEN end - ovl - 1 ELSE Len(txt),
         idx |-> st.idx + 1,
         chunks |-> Append(st.chunks,
                           ChunkDict(PySlice(txt, st.i, end), source, title, st.idx))]

\* Mutant: the next window starts where this one started.
ChunkIterStuck(txt, source, title, size, ovl, st) ==
    LET end == Min(st.i + size, Len(txt))
    IN  [i |-> IF end < Len(txt) THEN st.i ELSE Len(txt),
         idx |-> st.idx + 1,
         chunks |-> Append(st.chunks,
                           ChunkDict(PySlice(txt, st.i, end), source, title, st.idx))]

\* Mutant: the next window steps back by twice the overlap.
ChunkIterDoubleOverlap(txt, source, title, size, ovl, st) ==
    LET end == Min(st.i + size, Len(txt))
    IN  [i |-> IF end < Len(txt) THEN end - 2 * ovl ELSE Len(txt),
         idx |-> st.idx + 1,
         chunks |-> Append(st.chunks,
                           ChunkDict(PySlice(txt, st.i, end), source, title, st.idx))]

\* One iteration of the while loop (lines 82-86) from loop state st = [i, idx,
\* chunks]: the window end, the appended chunk, the next start.
ChunkIter(txt, source, title, size, ovl, st) ==
    LET end == Min(st.i + size, Len(txt))
    IN  [i |-> IF end < Len(txt) THEN end - ovl ELSE Len(txt),
         idx |-> st.idx + 1,
         chunks |-> Append(st.chunks,
                           ChunkDict(PySlice(txt, st.i, end), source, title, st.idx))]

\* The loop run to its end (lines 81-87); used where _chunk is called with
\* parameters for which the loop ends.
RECURSIVE ChunkLoop(_, _, _, _, _, _)
ChunkLoop(txt, source, title, size, ovl, st) ==
    IF st.i < Len(txt)
    THEN ChunkLoop(txt, source, title, size, ovl,
                   ChunkIter(txt, source, title, size, ovl, st))
    ELSE st.chunks

_chunk(txt, source, title, size, ovl) ==
    ChunkLoop(txt, source, title, size, ovl, [i |-> 0, idx |-> 0, chunks |-> <<>>])

----------------------------------------------------------------------------
(* _chunk as a process: one action per loop iteration *)

Alphabet == {"a", "b"}

RECURSIVE StringsOfLen(_)
StringsOfLen(n) ==
    IF n = 0 THEN {""}
    ELSE {s \o c : s \in StringsOfLen(n - 1), c \in Alphabet}

Texts == UNION {StringsOfLen(n) : n \in 0..MaxTextLen}

\* The loop of a call with chunk_size <= overlap need not end: the model stops
\* it after this many chunks, more than any call that ends produces.
MaxIter == MaxTextLen + 2

ChunkSource == "src"
ChunkTitle == "Title"

ChunkStep ==
    /\ pc = "loop"
    /\ i < Len(text)
    /\ Len(chunks) < MaxIter
    /\ LET st == ChunkIter(text, ChunkSource, ChunkTitle, chunk_size, overlap,
                           [i |-> i, idx |-> idx, chunks |-> chunks])
       IN  /\ i' = st.i
           /\ idx' = st.idx
           /\ chunks' = st.chunks
    /\ UNCHANGED <<text, chunk_size, overlap, pc>>
    /\ UNCHANGED storeVars

ChunkReturn ==
    /\ pc = "loop"
    /\ ~(i < Len(text))
    /\ pc' = "returned"
    /\ UNCHANGED <<text, chunk_size, overlap, i, idx, chunks>>
    /\ UNCHANGED storeVars

----------------------------------------------------------------------------
(* The embedding provider: _embed *)

\* The vectors a provider reply is drawn from; their norms are 1, 5 and 0.
Vectors == {<<1, 0>>, <<3, 4>>, <<0, 0>>}

\* os.environ with no variable of the program set, and os.environ.get.
NoEnviron == [name \in {} |-> ""]

environ_get(name, default) ==
    IF name \in DOMAIN environ THEN environ[name] ELSE default

\* os.environ[name] = value
environ_set(name, value) ==
    [n \in DOMAIN environ \cup {name} |->
        IF n = name THEN value ELSE environ[n]]

DEFAULT_EMBEDDING_MODEL == "text-embedding-3-small"
EmbeddingModels == {DEFAULT_EMBEDDING_MODEL, "text-embedding-3-large"}

\* The vectors a model returns: the dimensionality is the model's (1536 for
\* text-embedding-3-small, 3072 for text-embedding-3-large; 2 and 3 here).
VectorsOf(model) ==
    IF model = DEFAULT_EMBEDDING_MODEL THEN Vectors ELSE {<<0, 0, 1>>}

\* The outcomes of _embed(texts): client.embeddings.create raises, or the
\* reply holds one vector per input string, in order, from the model that
\* EMBEDDING_MODEL names at the time of the call.
_embed(texts) ==
    LET model == environ_get("EMBEDDING_MODEL", DEFAULT_EMBEDDING_MODEL)
    IN  {[ok |-> FALSE, vectors |-> <<>>]}
            \cup {[ok |-> TRUE, vectors |-> vs]
                  : vs \in [1..Len(texts) -> VectorsOf(model)]}

\* What a call of _embed leaves in the call log of the running operation.
EmbedCall(texts, reply) == [texts |-> texts, ok |-> reply.ok, vectors |-> reply.vectors]

----------------------------------------------------------------------------
(* The file system index() reads *)

RECURSIVE Rep(_, _)
Rep(s, n) ==
    IF n = 0 THEN ""
    ELSE IF n % 2 = 0 THEN LET h == Rep(s, n \div 2) IN h \o h
    ELSE s \o Rep(s, n - 1)

\* A text of more than one chunk under the default chunking parameters.
LongDoc == Rep("a", DEFAULT_CHUNK_SIZE) \o Rep("b", DEFAULT_OVERLAP)

NotesPath == "docs/notes.txt"
BadPath == "docs/bad.bin"

\* The strings handed to index(): two literal texts and two paths.
Inputs == {"hi", LongDoc, NotesPath, BadPath}

\* The files on disk: docs/notes.txt is a UTF-8 text file, docs/bad.bin is a
\* file that is not valid UTF-8. A string that is no key names no file.
DiskWithNotes ==
    [p \in {NotesPath, BadPath} |->
        IF p = NotesPath
        THEN [readable |-> TRUE, content |-> "note"]
        ELSE [readable |-> FALSE, content |-> ""]]

\* The same disk before docs/notes.txt was written.
DiskWithoutNotes ==
    [p \in {BadPath} |-> [readable |-> FALSE, content |-> ""]]

Disks == {DiskWithNotes, DiskWithoutNotes}

\* os.path.isfile
isfile(disk, p) == p \in DOMAIN disk

\* os.path.basename: what follows the last "/".
RECURSIVE LastSlash(_, _)
LastSlash(p, k) ==
    IF k = 0 THEN 0
    ELSE IF SubSeq(p, k, k) = "/" THEN k
    ELSE LastSlash(p, k - 1)

basename(p) == SubSeq(p, LastSlash(p, Len(p)) + 1, Len(p))

----------------------------------------------------------------------------
(* _embed_and_store and index *)

\* zip(chunks, vectors) followed by the appends of lines 135-138.
StoreEntries(cs, vectors) ==
    [k \in 1..Min(Len(cs), Len(vectors)) |->
        [content |-> cs[k].content, source |-> cs[k].source,
         title |-> cs[k].title, chunk_index |-> cs[k].chunk_index,
         vector |-> vectors[k]]]

\* Mutant: the vectors are paired with the chunks in reverse order.
_embed_and_store_reversed(store, cs, reply) ==
    IF ~reply.ok THEN [ok |-> FALSE, store |-> store]
    ELSE [ok |-> TRUE,
          store |-> store \o StoreEntries(cs,
                        [k \in 1..Len(reply.vectors) |->
                            reply.vectors[Len(reply.vectors) + 1 - k]])]

\* Mutant: the chunks are appended before the provider is called, with a
\* placeholder vector, and stay when the call fails.
_embed_and_store_eager(store, cs, reply) ==
    IF ~reply.ok
    THEN [ok |-> FALSE,
          store |-> store \o StoreEntries(cs, [k \in 1..Len(cs) |-> <<0, 0>>])]
    ELSE [ok |-> TRUE, store |-> store \o StoreEntries(cs, reply.vectors)]

\* Mutant: the new entries are put in front of the stored ones.
_embed_and_store_prepend(store, cs, reply) ==
    IF ~reply.ok THEN [ok |-> FALSE, store |-> store]
    ELSE [ok |-> TRUE, store |-> StoreEntries(cs, reply.vectors) \o store]

\* _embed_and_store(chunks) on `store`, given the outcome `reply` of its call
\* of _embed (line 134): whether it returns normally, and the store it leaves.
_embed_and_store(store, cs, reply) ==
    IF ~reply.ok THEN [ok |-> FALSE, store |-> store]
    ELSE [ok |-> TRUE, store |-> store \o StoreEntries(cs, reply.vectors)]

\* texts = [c["content"] for c in chunks]
ContentsOf(cs) == [k \in 1..Len(cs) |-> cs[k].content]

\* Mutant: every input is taken as literal text.
DocumentOfInline(disk, path) ==
    [ok |-> TRUE,
     chunks |-> _chunk(path, "inline", "Inline Text",
                       DEFAULT_CHUNK_SIZE, DEFAULT_OVERLAP)]

\* Lines 163-172 for one path: the chunks of the document, or the failure of
\* open/read.
DocumentOf(disk, path) ==
    IF isfile(disk, path)
    THEN [ok |-> disk[path].readable,
          chunks |-> _chunk(disk[path].content, path, basename(path),
                            DEFAULT_CHUNK_SIZE, DEFAULT_OVERLAP)]
    ELSE [ok |-> TRUE,
          chunks |-> _chunk(path, "inline", "Inline Text",
                            DEFAULT_CHUNK_SIZE, DEFAULT_OVERLAP)]

\* The runs of index(paths) from input number k on, with the store `store` and
\* the provider calls made so far: the set of possible ends, each the final
\* store, the status, the number of the failing input (0 if none) and the
\* provider calls.
RECURSIVE IndexFrom(_, _, _, _, _)
IndexFrom(disk, store, paths, k, calls) ==
    IF k > Len(paths)
    THEN {[store |-> store, status |-> "ok", failedAt |-> 0, calls |-> calls]}
    ELSE LET doc == DocumentOf(disk, paths[k])
             texts == ContentsOf(doc.chunks)
         IN  IF ~doc.ok
             THEN {[store |-> store, status |-> "IOError", failedAt |-> k,
                    calls |-> calls]}
             ELSE UNION {
                    LET done == _embed_and_store(store, doc.chunks, reply)
                    IN  IF ~done.ok
                        THEN {[store |-> done.store,
                               status |-> "EmbeddingProviderError",
                               failedAt |-> k,
                               calls |-> Append(calls, EmbedCall(texts, reply))]}
                        ELSE IndexFrom(disk, done.store, paths, k + 1,
                                       Append(calls, EmbedCall(texts, reply)))
                    : reply \in _embed(texts)}

index_runs(disk, store, paths) == IndexFrom(disk, store, paths, 1, <<>>)

----------------------------------------------------------------------------
(* search *)

\* np.dot of two vectors and np.linalg.norm of one.
RECURSIVE Dot(_, _)
Dot(v, q) ==
    IF Len(v) = 0 THEN 0
    ELSE Head(v) * Head(q) + Dot(Tail(v), Tail(q))

Norm(v) == CHOOSE r \in 0..Dot(v, v) : r * r = Dot(v, v)

\* Mutant: the division is not guarded, a zero norm gives 0 / 0.
ScoreUnguarded(v, q) == [num |-> Dot(v, q), den |-> Norm(v) * Norm(q)]

\* Lines 209-212: dots / norms where norms != 0, and 0 where norms == 0. A
\* score is the fraction num / den with den > 0.
Score(v, q) ==
    LET dots == Dot(v, q)
        norms == Norm(v) * Norm(q)
    IN  IF norms # 0 THEN [num |-> dots, den |-> norms]
        ELSE [num |-> 0, den |-> 1]

Neg(s) == [num |-> 0 - s.num, den |-> s.den]
Less(a, b) == a.num * b.den < b.num * a.den

scores_of(store, q_vec) == [k \in 1..Len(store) |-> Score(store[k].vector, q_vec)]

\* np.argsort(keys) with the default kind: an order of the positions in which
\* the keys do not decrease. The default sort is not stable, so the order of
\* positions with equal keys is any. Positions count from 1 here.
RECURSIVE SortedOrders(_, _)
SortedOrders(keys, remaining) ==
    IF remaining = {} THEN {<<>>}
    ELSE UNION {
            {<<k>> \o rest : rest \in SortedOrders(keys, remaining \ {k})}
            : k \in {m \in remaining :
                        \A j \in remaining : ~Less(keys[j], keys[m])}}

\* Mutant: the keys are sorted in non-increasing order.
argsort_descending(keys) ==
    SortedOrders([k \in 1..Len(keys) |-> Neg(keys[k])], 1..Len(keys))

argsort(keys) == SortedOrders(keys, 1..Len(keys))

\* Mutant: a result is the whole stored entry with the score added.
ResultsForWholeEntry(store, scores, indices) ==
    [k \in 1..Len(indices) |->
        [content |-> store[indices[k]].content,
         source |-> store[indices[k]].source,
         title |-> store[indices[k]].title,
         chunk_index |-> store[indices[k]].chunk_index,
         vector |-> store[indices[k]].vector,
         score |-> scores[indices[k]]]]

\* Lines 214-222: the result dicts for the chosen positions.
ResultsFor(store, scores, indices) ==
    [k \in 1..Len(indices) |->
        [content |-> store[indices[k]].content,
         source |-> store[indices[k]].source,
         title |-> store[indices[k]].title,
         score |-> scores[indices[k]]]]

\* Lines 208-209: np.array(...) of the stored vectors and np.dot with the
\* query vector need every stored vector to have the length of the query
\* vector, and raise otherwise.
SameShape(store, q_vec) ==
    \A m \in 1..Len(store) : Len(store[m].vector) = Len(q_vec)

\* Mutant: a failed provider call is made a second time.
search_scored_retry(store, query, top_k) ==
    UNION {
        UNION {
            IF ~reply.ok
            THEN {[status |-> "EmbeddingProviderError", results |-> <<>>,
                   calls |-> <<EmbedCall(<<query>>, first),
                               EmbedCall(<<query>>, reply)>>]}
            ELSE LET scores == scores_of(store, reply.vectors[1])
                 IN  {[status |-> "ok",
                       results |-> ResultsFor(store, scores, PyUpTo(order, top_k)),
                       calls |-> IF first.ok THEN <<EmbedCall(<<query>>, reply)>>
                                 ELSE <<EmbedCall(<<query>>, first),
                                        EmbedCall(<<query>>, reply)>>]
                      : order \in argsort([k \in 1..Len(scores) |-> Neg(scores[k])])}
            : reply \in IF first.ok THEN {first} ELSE _embed(<<query>>)}
        : first \in _embed(<<query>>)}

\* Lines 207-223: the runs of search(query, top_k) past the emptiness test,
\* each the status, the returned list and the provider calls.
search_scored(store, query, top_k) ==
    UNION {
        IF ~reply.ok
        THEN {[status |-> "EmbeddingProviderError", results |-> <<>>,
               calls |-> <<EmbedCall(<<query>>, reply)>>]}
        ELSE IF ~SameShape(store, reply.vectors[1])
        THEN {[status |-> "ValueError", results |-> <<>>,
               calls |-> <<EmbedCall(<<query>>, reply)>>]}
        ELSE LET scores == scores_of(store, reply.vectors[1])
             IN  {[status |-> "ok",
                   results |-> ResultsFor(store, scores, PyUpTo(order, top_k)),
                   calls |-> <<EmbedCall(<<query>>, reply)>>]
                  : order \in argsort([k \in 1..Len(scores) |-> Neg(scores[k])])}
        : reply \in _embed(<<query>>)}

\* Mutant: the emptiness test of lines 205-206 is missing.
search_without_empty_test(store, query, top_k) ==
    search_scored(store, query, top_k)

\* The runs of search(query, top_k) on `store` (lines 205-223).
search_runs(store, query, top_k) ==
    IF store = <<>>
    THEN {[status |-> "ok", results |-> <<>>, calls |-> <<>>]}
    ELSE search_scored(store, query, top_k)

----------------------------------------------------------------------------
(* The store as a state machine: one action per public call *)

PathLists == UNION {[1..n -> Inputs] : n \in 1..MaxInputs}
Queries == {"", "q"}
TopKs == {0 - 1, 0, 1, 2, DEFAULT_TOP_K}

NoCall ==
    [op |-> "none", inputs |-> <<>>, query |-> "", top_k |-> 0, status |-> "ok",
     failedAt |-> 0, results |-> <<>>, calls |-> <<>>]

\* Python's None, and the module state of file_store after import (lines
\* 26-27); no call of ask() has been made.
None == "None"

NoAsk ==
    [op |-> "none", provider |-> "", query |-> "", requests |-> <<>>,
     hit |-> FALSE, status |-> "ok", answer |-> ""]

AgentIdle ==
    /\ _VECTOR_STORE_ID = None
    /\ _ASSISTANT_ID = None
    /\ asked = NoAsk

\* No call of complete_with_knowledge has been made, and the caller holds no
\* message list.
NoWrap ==
    [op |-> "none", provider |-> "", given |-> <<>>, query |-> "", top_k |-> 0,
     results |-> <<>>, sent |-> <<>>, status |-> "ok", reply |-> ""]

WrapperIdle ==
    /\ messages = <<>>
    /\ wrapped = NoWrap

\* No direct call of query_openai has been made.
NoQuery ==
    [op |-> "none", query |-> "", contacted |-> FALSE, status |-> "ok",
     text |-> ""]

\* No call of orchestrator.run has been made.
NoRun ==
    [op |-> "none", input_text |-> "", tasks |-> [none |-> TRUE],
     calls |-> <<>>, status |-> "ok", keys |-> {}, summary |-> "",
     extraction |-> "", processing |-> <<>>]

\* No method of the agent is being called.
NoSimOp ==
    [op |-> "none", initial |-> [num |-> 0, den |-> 1], on_step |-> FALSE,
     raws |-> <<>>, calls |-> 0, status |-> "ok",
     value |-> [num |-> 0, den |-> 1], before |-> <<>>, reported |-> <<>>,
     returned |-> <<>>]

\* SimulationAgent() (agent.py lines 64-67) with the defaults, not yet used.
SimIdle ==
    /\ agent = [provider |-> "openai", max_iterations |-> 10, history |-> <<>>]
    /\ simOp = NoSimOp

OthersIdle ==
    /\ WrapperIdle
    /\ queried = NoQuery
    /\ ran = NoRun
    /\ SimIdle

\* A thread that is in no call of index(), and one that is in no search().
IndexerIdle ==
    [pc |-> "idle", paths |-> <<>>, k |-> 0, entries |-> <<>>, done |-> 0]

SearcherIdle ==
    [pc |-> "idle", query |-> "", top_k |-> 0, q_vec |-> <<>>, scores |-> <<>>,
     indices |-> <<>>, results |-> <<>>, status |-> "ok"]

ChunkIdle ==
    /\ text = ""
    /\ chunk_size = DEFAULT_CHUNK_SIZE
    /\ overlap = DEFAULT_OVERLAP
    /\ i = 0
    /\ idx = 0
    /\ chunks = <<>>
    /\ pc = "idle"

Init ==
    /\ _STORE = <<>>
    /\ fs = DiskWithNotes
    /\ environ = NoEnviron
    /\ AgentIdle
    /\ OthersIdle
    /\ indexer = IndexerIdle
    /\ searcher = SearcherIdle
    /\ lastOp = NoCall
    /\ ChunkIdle

\* The state after import on either disk.
InitDisk ==
    /\ _STORE = <<>>
    /\ fs \in Disks
    /\ environ = NoEnviron
    /\ AgentIdle
    /\ OthersIdle
    /\ indexer = IndexerIdle
    /\ searcher = SearcherIdle
    /\ lastOp = NoCall
    /\ ChunkIdle

\* A public call starts when the caller holds no unread outcome; `returns` is
\* the caller taking the outcome of the call that ended.
Ready == lastOp.op = "none"

\* store_size(): len(_STORE).
store_size == Len(_STORE)

\* Mutant: clear() pops the last entry, and raises on an empty store.
clear_pop ==
    /\ Ready
    /\ _STORE' = PyUpTo(_STORE, 0 - 1)
    /\ lastOp' = [NoCall EXCEPT !.op = "clear",
                                !.status = IF _STORE = <<>> THEN "IndexError"
                                           ELSE "ok"]
    /\ UNCHANGED restVars
    /\ UNCHANGED <<chunkVars, otherVars>>

clear ==
    /\ Ready
    /\ _STORE' = <<>>
    /\ lastOp' = [NoCall EXCEPT !.op = "clear"]
    /\ UNCHANGED restVars
    /\ UNCHANGED <<chunkVars, otherVars>>

\* The number of chunks index(paths) appends when nothing fails.
RECURSIVE ChunkTotal(_, _, _)
ChunkTotal(disk, paths, k) ==
    IF k > Len(paths) THEN 0
    ELSE Len(DocumentOf(disk, paths[k]).chunks) + ChunkTotal(disk, paths, k + 1)

index ==
    /\ Ready
    /\ \E paths \in PathLists :
        /\ Len(_STORE) + ChunkTotal(fs, paths, 1) <= MaxStore
        /\ \E run \in index_runs(fs, _STORE, paths) :
            /\ _STORE' = run.store
            /\ lastOp' = [NoCall EXCEPT !.op = "index", !.inputs = paths,
                                        !.status = run.status,
                                        !.failedAt = run.failedAt,
                                        !.calls = run.calls]
            /\ UNCHANGED restVars
            /\ UNCHANGED <<chunkVars, otherVars>>

\* search(query, top_k) as the caller sees it: the outcome of one of its runs.
SearchOutcome ==
    /\ Ready
    /\ \E query \in Queries, top_k \in TopKs :
        \E run \in search_runs(_STORE, query, top_k) :
            /\ lastOp' = [NoCall EXCEPT !.op = "search", !.query = query,
                                        !.top_k = top_k,
                                        !.status = run.status,
                                        !.results = run.results,
                                        !.calls = run.calls]
            /\ UNCHANGED restVars
            /\ UNCHANGED <<chunkVars, otherVars>>

\* Mutant: search drops the last stored entry.
search_pops_store ==
    /\ SearchOutcome
    /\ _STORE' = PyUpTo(_STORE, 0 - 1)

\* search has no statement that assigns to or mutates _STORE.
search ==
    /\ SearchOutcome
    /\ UNCHANGED _STORE

returns ==
    /\ ~Ready
    /\ lastOp' = NoCall
    /\ UNCHANGED <<_STORE, restVars>>
    /\ UNCHANGED <<chunkVars, otherVars>>

Next == clear \/ index \/ search \/ returns

Spec == Init /\ [][Next]_vars

\* The process sets EMBEDDING_MODEL between two calls.
setenv ==
    /\ Ready
    /\ \E model \in EmbeddingModels :
          environ' = environ_set("EMBEDDING_MODEL", model)
    /\ UNCHANGED <<_STORE, fs, lastOp, agentVars, threadVars>>
    /\ UNCHANGED <<chunkVars, otherVars>>

NextEnv == Next \/ setenv

\* The same calls in a process whose environment changes.
SpecEnv == Init /\ [][NextEnv]_vars

----------------------------------------------------------------------------
(* file_store and kb_agent: the hosted assistant, and ask() *)

LLM_PROVIDER == environ_get("LLM_PROVIDER", "openai")

\* A request to a hosted service (assistant run, chat completion, web
\* search): it raises, or it returns one of these texts.
ServiceTexts == {"", "answer"}
ServiceReplies ==
    {[ok |-> FALSE, text |-> ""]} \cup {[ok |-> TRUE, text |-> t] : t \in ServiceTexts}

\* file_store.clear_openai (lines 45-47).
clear_openai ==
    /\ asked = NoAsk
    /\ _VECTOR_STORE_ID' = None
    /\ _ASSISTANT_ID' = None
    /\ UNCHANGED <<_STORE, fs, environ, lastOp, asked, threadVars>>
    /\ UNCHANGED <<chunkVars, otherVars>>

\* file_store._upload_openai(paths) (lines 106-129): the ends of the call,
\* each the two IDs it leaves. A service call can raise, and so can open().
_upload_openai(disk, vs, asst, paths) ==
    LET created == IF vs = None THEN "vs_1" ELSE vs
        opened == \A k \in 1..Len(paths) : isfile(disk, paths[k])
    IN  (IF vs = None THEN {[vs |-> vs, asst |-> asst, status |-> "ServiceError"]}
         ELSE {})
        \cup (IF ~opened
              THEN {[vs |-> created, asst |-> asst, status |-> "IOError"]}
              ELSE {[vs |-> created, asst |-> asst, status |-> "ServiceError"],
                    [vs |-> created,
                     asst |-> IF asst = None THEN "asst_1" ELSE asst,
                     status |-> "ok"]})

\* file_store.upload_files(paths) (lines 74-78): knowledge_base.index for the
\* Anthropic provider, the hosted vector store otherwise.
upload_files ==
    /\ asked = NoAsk
    /\ \E paths \in PathLists :
        IF LLM_PROVIDER = "anthropic"
        THEN /\ Len(_STORE) + ChunkTotal(fs, paths, 1) <= MaxStore
             /\ \E run \in index_runs(fs, _STORE, paths) : _STORE' = run.store
             /\ UNCHANGED <<_VECTOR_STORE_ID, _ASSISTANT_ID>>
        ELSE /\ \E run \in _upload_openai(fs, _VECTOR_STORE_ID, _ASSISTANT_ID,
                                           paths) :
                  /\ _VECTOR_STORE_ID' = run.vs
                  /\ _ASSISTANT_ID' = run.asst
             /\ UNCHANGED _STORE
    /\ UNCHANGED <<fs, environ, lastOp, asked, threadVars>>
    /\ UNCHANGED <<chunkVars, otherVars>>

\* Mutant: the assistant is run whether or not an assistant ID is set.
query_openai_unguarded(asst, query) ==
    {[contacted |-> TRUE, ok |-> r.ok, text |-> r.text] : r \in ServiceReplies}

\* file_store.query_openai(query) (lines 159-181): "" at once when no
\* assistant is set; otherwise the assistant is run, and the text of its
\* first cited block is returned, or "" when the run did not complete or
\* cites no file.
query_openai(asst, query) ==
    IF asst = None THEN {[contacted |-> FALSE, ok |-> TRUE, text |-> ""]}
    ELSE {[contacted |-> TRUE, ok |-> r.ok, text |-> r.text] : r \in ServiceReplies}

\* kb_agent._web_search_openai and _web_search_anthropic (lines 143-148 and
\* 170-181): one request with the provider's web-search tool.
_web_search(query) == ServiceReplies

\* The outcome of ask(): the requests made, in order, whether the
\* knowledge-base lookup yielded something, and the answer or the error.
AskRun(requests, hit, status, answer) ==
    [requests |-> requests, hit |-> hit, status |-> status, answer |-> answer]

\* What ask() does after a lookup that yielded nothing: the web search.
WebSearchRuns(lookup, query) ==
    {AskRun(<<lookup, "web_search">>, FALSE,
            IF w.ok THEN "ok" ELSE "ServiceError", w.text)
     : w \in _web_search(query)}

\* Mutant: the web search is made whatever the lookup yielded.
_ask_openai_web_always(asst, query) ==
    UNION {
        IF ~r.ok THEN {AskRun(<<"query_openai">>, FALSE, "ServiceError", "")}
        ELSE {AskRun(<<"query_openai", "web_search">>, r.text # "",
                     IF w.ok THEN "ok" ELSE "ServiceError", w.text)
              : w \in _web_search(query)}
        : r \in query_openai(asst, query)}

\* kb_agent._ask_openai (lines 85-89).
_ask_openai(asst, query) ==
    UNION {
        IF ~r.ok THEN {AskRun(<<"query_openai">>, FALSE, "ServiceError", "")}
        ELSE IF r.text # "" THEN {AskRun(<<"query_openai">>, TRUE, "ok", r.text)}
        ELSE WebSearchRuns("query_openai", query)
        : r \in query_openai(asst, query)}

\* wrapper.complete_with_knowledge(messages, query) (lines 57-78) as ask()
\* sees it: the store is searched again, then complete() is called once.
complete_with_knowledge(store, query) ==
    UNION {
        IF again.status # "ok"
        THEN {AskRun(<<"search", "search">>, TRUE, again.status, "")}
        ELSE {AskRun(<<"search", "search", "complete">>, TRUE,
                     IF c.ok THEN "ok" ELSE "ServiceError", c.text)
              : c \in ServiceReplies}
        : again \in search_runs(store, query, DEFAULT_TOP_K)}

\* Mutant: results count as a hit only when the best score is above 0.
_ask_anthropic_threshold(store, query) ==
    UNION {
        IF first.status # "ok"
        THEN {AskRun(<<"search">>, FALSE, first.status, "")}
        ELSE IF first.results # <<>> /\ first.results[1].score.num > 0
        THEN complete_with_knowledge(store, query)
        ELSE WebSearchRuns("search", query)
        : first \in search_runs(store, query, DEFAULT_TOP_K)}

\* kb_agent._ask_anthropic (lines 113-121).
_ask_anthropic(store, query) ==
    UNION {
        IF first.status # "ok"
        THEN {AskRun(<<"search">>, FALSE, first.status, "")}
        ELSE IF first.results # <<>>
        THEN complete_with_knowledge(store, query)
        ELSE WebSearchRuns("search", query)
        : first \in search_runs(store, query, DEFAULT_TOP_K)}

\* kb_agent.ask(query) (lines 59-61).
ask ==
    /\ asked = NoAsk
    /\ \E query \in Queries :
        \E run \in IF LLM_PROVIDER = "anthropic"
                    THEN _ask_anthropic(_STORE, query)
                    ELSE _ask_openai(_ASSISTANT_ID, query) :
            asked' = [op |-> "ask", provider |-> LLM_PROVIDER, query |-> query,
                      requests |-> run.requests, hit |-> run.hit,
                      status |-> run.status, answer |-> run.answer]
    /\ UNCHANGED <<_STORE, fs, environ, lastOp, _VECTOR_STORE_ID, _ASSISTANT_ID,
                   threadVars>>
    /\ UNCHANGED <<chunkVars, otherVars>>

\* The caller of ask() takes the answer.
ask_returns ==
    /\ asked # NoAsk
    /\ asked' = NoAsk
    /\ UNCHANGED <<_STORE, fs, environ, lastOp, _VECTOR_STORE_ID, _ASSISTANT_ID,
                   threadVars>>
    /\ UNCHANGED <<chunkVars, otherVars>>

\* The process starts with LLM_PROVIDER unset or set to a provider.
AgentEnvirons ==
    {NoEnviron} \cup {[name \in {"LLM_PROVIDER"} |-> p] : p \in {"openai", "anthropic"}}

InitAgent ==
    /\ _STORE = <<>>
    /\ fs = DiskWithNotes
    /\ environ \in AgentEnvirons
    /\ lastOp = NoCall
    /\ AgentIdle
    /\ OthersIdle
    /\ indexer = IndexerIdle
    /\ searcher = SearcherIdle
    /\ ChunkIdle

NextAgent == clear_openai \/ upload_files \/ ask \/ ask_returns

SpecAgent == InitAgent /\ [][NextAgent]_vars

\* A direct call of file_store.query_openai(query); `queried` keeps the
\* record of the last such call.
query_openai_call ==
    /\ \E query \in Queries :
        \E r \in query_openai(_ASSISTANT_ID, query) :
            queried' = [op |-> "query_openai", query |-> query,
                        contacted |-> r.contacted,
                        status |-> IF r.ok THEN "ok" ELSE "ServiceError",
                        text |-> r.text]
    /\ UNCHANGED <<_STORE, restVars, lastOp>>
    /\ UNCHANGED notFileVars

\* Any sequence of clear_openai, upload_files and query_openai calls.
NextFileStore == clear_openai \/ upload_files \/ query_openai_call

SpecFileStore == InitAgent /\ [][NextFileStore]_vars

----------------------------------------------------------------------------
(* wrapper.complete_with_knowledge: the messages handed to complete() *)

\* A message is [role, content]; its content is a string, [str |-> s], or a
\* list of content blocks, [list |-> blocks].
Str(s) == [str |-> s]
List(blocks) == [list |-> blocks]
IsStr(content) == DOMAIN content = {"str"}
Message(role, content) == [role |-> role, content |-> content]

\* {"type": "text", "text": t}
TextBlock(t) == [type |-> "text", text |-> t]

\* Lines 70-75: the search_result block of one result.
SearchBlock(r) ==
    [type |-> "search_result", source |-> r.source, title |-> r.title,
     content |-> <<TextBlock(r.content)>>]

\* "\n".join(lines)
RECURSIVE Join(_, _)
Join(lines, k) ==
    IF k > Len(lines) THEN ""
    ELSE IF k = Len(lines) THEN lines[k]
    ELSE lines[k] \o "\n" \o Join(lines, k + 1)

\* Lines 61-63: the OpenAI format, a system message put in front.
augment_openai(msgs, results) ==
    LET context_lines == [k \in 1..Len(results) |->
                            "[Source: " \o results[k].source \o "] "
                                \o results[k].content]
        context == "Relevant context:\n" \o Join(context_lines, 1)
    IN  <<Message("system", Str(context))>> \o msgs

\* Lines 69-76: msg["content"].insert(0, search_block) for each result from
\* number k on, in the order of the results.
RECURSIVE InsertBlocks(_, _, _)
InsertBlocks(results, k, blocks) ==
    IF k > Len(results) THEN blocks
    ELSE InsertBlocks(results, k + 1, <<SearchBlock(results[k])>> \o blocks)

\* The first message with role "user" (0 if none).
FirstUser(msgs) ==
    IF \E k \in 1..Len(msgs) : msgs[k].role = "user"
    THEN CHOOSE k \in 1..Len(msgs) :
            /\ msgs[k].role = "user"
            /\ \A j \in 1..(k - 1) : msgs[j].role # "user"
    ELSE 0

\* Lines 67-68: a string content becomes a list of one text block.
AsBlocks(content) ==
    IF IsStr(content) THEN <<TextBlock(content.str)>> ELSE content.list

\* Mutant of the Anthropic format: search blocks behind the original content.
augment_anthropic_appending(msgs, results) ==
    LET u == FirstUser(msgs)
    IN  IF u = 0 THEN msgs
        ELSE [msgs EXCEPT ![u].content =
                List(AsBlocks(msgs[u].content)
                         \o [k \in 1..Len(results) |-> SearchBlock(results[k])])]

\* Lines 65-77: the Anthropic format, search_result blocks put into the
\* first user message.
augment_anthropic(msgs, results) ==
    LET u == FirstUser(msgs)
    IN  IF u = 0 THEN msgs
        ELSE [msgs EXCEPT ![u].content =
                List(InsertBlocks(results, 1, AsBlocks(msgs[u].content)))]

\* Lines 58-77: the list handed to complete().
Augmented(msgs, results, provider) ==
    IF provider = "openai" THEN augment_openai(msgs, results)
    ELSE augment_anthropic(msgs, results)

\* Mutant: augmented is the caller's list itself, not a copy.
CallerListAliased(msgs, augmented) == augmented

\* Line 59: augmented is a deep copy, so the caller's list and its message
\* dicts are what they were whatever is done to augmented.
CallerList(msgs, augmented) == msgs

\* The runs of complete_with_knowledge(msgs, query, top_k) on `store`: the
\* results of search, the lists complete() was called with, the caller's
\* list afterwards, and the reply or the error.
complete_with_knowledge_runs(store, msgs, query, top_k, provider) ==
    UNION {
        IF found.status # "ok"
        THEN {[results |-> <<>>, sent |-> <<>>, caller |-> msgs,
               status |-> found.status, reply |-> ""]}
        ELSE LET augmented == Augmented(msgs, found.results, provider)
             IN  {[results |-> found.results, sent |-> <<augmented>>,
                   caller |-> CallerList(msgs, augmented),
                   status |-> IF c.ok THEN "ok" ELSE "ServiceError",
                   reply |-> c.text]
                  : c \in ServiceReplies}
        : found \in search_runs(store, query, top_k)}

\* The message lists callers pass: the one kb_agent.ask builds, a single
\* user message, none, two user messages behind a system message, and a user
\* message whose content is a list of blocks already.
MessageLists ==
    {<<Message("system", Str("You are a helpful assistant.")),
       Message("user", Str("q"))>>,
     <<Message("user", Str("hi"))>>,
     <<>>,
     <<Message("system", Str("s")), Message("user", Str("one")),
       Message("user", Str("two"))>>,
     <<Message("user", List(<<TextBlock("hi")>>))>>}

WrapperQueries == {"q"}
WrapperTopKs == {DEFAULT_TOP_K}

\* A caller holding the list msgs calls complete_with_knowledge(msgs, query,
\* top_k).
complete_with_knowledge_call ==
    /\ Ready
    /\ wrapped = NoWrap
    /\ \E msgs \in MessageLists, query \in WrapperQueries, top_k \in WrapperTopKs :
        \E run \in complete_with_knowledge_runs(_STORE, msgs, query, top_k,
                                                LLM_PROVIDER) :
            /\ messages' = run.caller
            /\ wrapped' = [op |-> "complete_with_knowledge",
                           provider |-> LLM_PROVIDER, given |-> msgs,
                           query |-> query, top_k |-> top_k,
                           results |-> run.results, sent |-> run.sent,
                           status |-> run.status, reply |-> run.reply]
    /\ UNCHANGED <<_STORE, restVars, lastOp>>
    /\ UNCHANGED notWrapperVars

\* The caller takes the reply and drops its list.
complete_with_knowledge_returns ==
    /\ wrapped # NoWrap
    /\ messages' = <<>>
    /\ wrapped' = NoWrap
    /\ UNCHANGED <<_STORE, restVars, lastOp>>
    /\ UNCHANGED notWrapperVars

InitWrapper ==
    /\ _STORE = <<>>
    /\ fs = DiskWithNotes
    /\ environ \in AgentEnvirons
    /\ lastOp = NoCall
    /\ AgentIdle
    /\ OthersIdle
    /\ indexer = IndexerIdle
    /\ searcher = SearcherIdle
    /\ ChunkIdle

\* The store is filled by index() between the calls of the wrapper.
index_between == wrapped = NoWrap /\ index

NextWrapper ==
    \/ index_between
    \/ returns
    \/ complete_with_knowledge_call
    \/ complete_with_knowledge_returns

SpecWrapper == InitWrapper /\ [][NextWrapper]_vars

----------------------------------------------------------------------------
(* linear.orchestrator.run: extract, process per task, summarize *)

\* processor.TASKS (processor.py lines 13-19), in order.
TASKS ==
    <<"schema_validation", "constraint_verification", "feature_extraction",
      "normalization", "risk_ranking">>

KnownTasks == {TASKS[k] : k \in 1..Len(TASKS)}

\* The tasks argument: None, or a list of task names.
NoTasks == [none |-> TRUE]
TaskList(l) == [list |-> l]

\* What extract(), process() and summarize() can come back with: each asks
\* the LLM, whose reply it parses, and can raise.
Extractions == {"e1", "e2"}
ProcessResults == {"r1", "r2"}
Summaries == {"summary"}

\* One call made by run(): the function, its arguments, and what it returned
\* ("" when it raised).
Call(fn, txt, data, task, processing, ret) ==
    [fn |-> fn, text |-> txt, data |-> data, task |-> task,
     processing |-> processing, ret |-> ret]

\* processing[t] = r, as the dict comprehension of line 15 sets it (a later
\* entry for the same task replaces the earlier one).
DictSet(processing, t, r) ==
    [u \in DOMAIN processing \cup {t} |-> IF u = t THEN r ELSE processing[u]]

\* The outcome of run(): the calls made, in order, and the returned dict or
\* the error.
RunOutcome(calls, status, keys, summary, extraction, processing) ==
    [calls |-> calls, status |-> status, keys |-> keys, summary |-> summary,
     extraction |-> extraction, processing |-> processing]

\* Mutant: the tasks are run from the last to the first.
task_list_reversed(tasks) ==
    LET l == IF DOMAIN tasks = {"list"} THEN tasks.list ELSE TASKS
    IN  [k \in 1..Len(l) |-> l[Len(l) + 1 - k]]

\* Line 14: task_list = tasks if tasks is not None else list(TASKS)
task_list(tasks) ==
    IF DOMAIN tasks = {"list"} THEN tasks.list ELSE TASKS

\* Line 17: summarize(input_text, extraction, processing)
summarize_args(input_text, extraction, processing) ==
    [text |-> input_text, data |-> extraction, processing |-> processing]

\* Lines 16-20: the summarize call and the returned dict.
RunSummarize(input_text, extraction, processing, calls) ==
    LET a == summarize_args(input_text, extraction, processing)
    IN  {RunOutcome(Append(calls, Call("summarize", a.text, a.data, "",
                                       a.processing, "")),
                    "ServiceError", {}, "", "", <<>>)}
        \cup {RunOutcome(Append(calls, Call("summarize", a.text, a.data, "",
                                            a.processing, sm)),
                         "ok", {"summary", "extraction", "processing"},
                         sm, extraction, processing)
              : sm \in Summaries}

\* Line 15: process(extraction, t) for the tasks from number k on, then lines
\* 16-20. process raises ValueError for a task that is not in TASKS
\* (processor.py lines 32-33), and can fail on the LLM's reply.
RECURSIVE RunProcess(_, _, _, _, _, _)
RunProcess(input_text, extraction, tl, k, processing, calls) ==
    IF k > Len(tl)
    THEN RunSummarize(input_text, extraction, processing, calls)
    ELSE IF tl[k] \notin KnownTasks
    THEN {RunOutcome(Append(calls, Call("process", "", extraction, tl[k], <<>>, "")),
                     "ValueError", {}, "", "", <<>>)}
    ELSE {RunOutcome(Append(calls, Call("process", "", extraction, tl[k], <<>>, "")),
                     "JSONDecodeError", {}, "", "", <<>>)}
         \cup UNION {RunProcess(input_text, extraction, tl, k + 1,
                                DictSet(processing, tl[k], r),
                                Append(calls, Call("process", "", extraction,
                                                   tl[k], <<>>, r)))
                     : r \in ProcessResults}

\* orchestrator.run(input_text, tasks) (lines 13-20).
run_outcomes(input_text, tasks) ==
    {RunOutcome(<<Call("extract", input_text, "", "", <<>>, "")>>,
                "ValueError", {}, "", "", <<>>)}
    \cup UNION {RunProcess(input_text, e, task_list(tasks), 1, <<>>,
                           <<Call("extract", input_text, "", "", <<>>, e)>>)
                : e \in Extractions}

InputTexts == {"x", "Simulate alloy."}

\* The tasks callers pass: None, no task, one, two in either order, the
\* same task twice, and lists with a name that is no task.
TaskArguments ==
    {NoTasks, TaskList(<<>>), TaskList(<<"schema_validation">>),
     TaskList(<<"schema_validation", "constraint_verification">>),
     TaskList(<<"risk_ranking", "schema_validation">>),
     TaskList(<<"normalization", "normalization">>),
     TaskList(<<"bogus">>),
     TaskList(<<"schema_validation", "bogus", "risk_ranking">>)}

\* A call of run(input_text, tasks).
run ==
    /\ ran = NoRun
    /\ \E input_text \in InputTexts, tasks \in TaskArguments :
        \E out \in run_outcomes(input_text, tasks) :
            ran' = [op |-> "run", input_text |-> input_text, tasks |-> tasks,
                    calls |-> out.calls, status |-> out.status,
                    keys |-> out.keys, summary |-> out.summary,
                    extraction |-> out.extraction,
                    processing |-> out.processing]
    /\ UNCHANGED <<_STORE, restVars, lastOp>>
    /\ UNCHANGED notLinearVars

\* The caller takes the result.
run_returns ==
    /\ ran # NoRun
    /\ ran' = NoRun
    /\ UNCHANGED <<_STORE, restVars, lastOp>>
    /\ UNCHANGED notLinearVars

NextLinear == run \/ run_returns

SpecLinear == Init /\ [][NextLinear]_vars

----------------------------------------------------------------------------
(* multi.sim.agent: SimulationAgent *)

\* A float is kept as an exact fraction num/den in lowest terms, den > 0.
RECURSIVE GCD(_, _)
GCD(a, b) == IF b = 0 THEN a ELSE GCD(b, a % b)

Abs(n) == IF n < 0 THEN -n ELSE n

Rat(num, den) ==
    LET g == GCD(Abs(num), den)
    IN  [num |-> num \div g, den |-> den \div g]

RatLess(a, b) == a.num * b.den < b.num * a.den

RECURSIVE Pow10(_)
Pow10(n) == IF n = 0 THEN 1 ELSE 10 * Pow10(n - 1)

\* Lines 32-34.
DEFAULT_COOLING_RATE == Rat(15, 1)
COOLDOWN_FALLBACK_RATE == Rat(12, 1)
MAX_PARSE_ATTEMPTS == 2

\* The character of s at position k ("" beyond its end).
Char(s, k) == IF k >= 1 /\ k <= Len(s) THEN SubSeq(s, k, k) ELSE ""

IsDigit(c) == c \in {"0", "1", "2", "3", "4", "5", "6", "7", "8", "9"}

DigitValue(c) ==
    CASE c = "0" -> 0 [] c = "1" -> 1 [] c = "2" -> 2 [] c = "3" -> 3
      [] c = "4" -> 4 [] c = "5" -> 5 [] c = "6" -> 6 [] c = "7" -> 7
      [] c = "8" -> 8 [] c = "9" -> 9

\* \d*: the first position from k on that holds no digit.
RECURSIVE DigitsEnd(_, _)
DigitsEnd(s, k) == IF IsDigit(Char(s, k)) THEN DigitsEnd(s, k + 1) ELSE k

\* The number written by the digits at positions a..b-1.
RECURSIVE NatOf(_, _, _)
NatOf(s, a, b) ==
    IF a >= b THEN 0
    ELSE NatOf(s, a, b - 1) * 10 + DigitValue(Char(s, b - 1))

\* The regular expression of line 43, [-+]?\d*\.?\d+(?:[eE][-+]?\d+)?,
\* tried at position p of s: whether it matches there, and float() of the
\* (longest, as the operators are greedy) match.
MatchAt(s, p) ==
    LET signed == Char(s, p) \in {"-", "+"}
        q == IF signed THEN p + 1 ELSE p
        intEnd == DigitsEnd(s, q)
        hasFrac == Char(s, intEnd) = "." /\ IsDigit(Char(s, intEnd + 1))
        fracEnd == IF hasFrac THEN DigitsEnd(s, intEnd + 1) ELSE intEnd
        fracLen == IF hasFrac THEN fracEnd - intEnd - 1 ELSE 0
        mantissa == NatOf(s, q, intEnd) * Pow10(fracLen)
                        + (IF hasFrac THEN NatOf(s, intEnd + 1, fracEnd) ELSE 0)
        expSigned == Char(s, fracEnd + 1) \in {"-", "+"}
        expFrom == IF expSigned THEN fracEnd + 2 ELSE fracEnd + 1
        hasExp == Char(s, fracEnd) \in {"e", "E"} /\ IsDigit(Char(s, expFrom))
        exponent == IF hasExp THEN NatOf(s, expFrom, DigitsEnd(s, expFrom)) ELSE 0
        up == IF hasExp /\ Char(s, fracEnd + 1) # "-" THEN Pow10(exponent) ELSE 1
        down == IF hasExp /\ Char(s, fracEnd + 1) = "-" THEN Pow10(exponent) ELSE 1
        sign == IF Char(s, p) = "-" THEN -1 ELSE 1
    IN  [ok |-> hasFrac \/ intEnd > q,
         value |-> Rat(sign * mantissa * up, Pow10(fracLen) * down)]

\* Lines 37-49: None for an empty reply and for one without a number,
\* otherwise the first number in it (re.search takes the leftmost match;
\* strip() removes no character a match can start with or hold).
_parse_cooling_rate_from_response(raw) ==
    IF raw = "" \/ \A p \in 1..Len(raw) : ~MatchAt(raw, p).ok
    THEN [none |-> TRUE]
    ELSE LET p == CHOOSE p \in 1..Len(raw) :
                    /\ MatchAt(raw, p).ok
                    /\ \A j \in 1..(p - 1) : ~MatchAt(raw, j).ok
         IN  [value |-> MatchAt(raw, p).value]

\* Mutant: the parsed value is returned as it is.
ClampUnclamped(value) == value

\* Lines 82 and 92: max(0.1, min(100.0, value))
Clamp(value) ==
    LET low == Rat(1, 10)
        high == Rat(100, 1)
        m == IF RatLess(value, high) THEN value ELSE high
    IN  IF RatLess(low, m) THEN m ELSE low

\* What the LLM is taken to reply to the prompt: nothing, text without a
\* number, numbers inside and outside [0.1, 100], a number among words.
SimReplies ==
    {"", "abc", "15", "12.5", "-3", "250", "0.05", "Try 7 K/min", "2e1"}

\* One LLM call of get_llm_suggestion, _call_openai or _call_anthropic
\* (lines 75-78 and 86-89): a reply, or the client raises.
SuggestOutcome(raws, calls, status, value) ==
    [raws |-> raws, calls |-> calls, status |-> status, value |-> value]

\* Lines 85-94: the retries from number k on, then the fallback.
RECURSIVE SuggestRetry(_, _, _, _)
SuggestRetry(replies, raws, calls, k) ==
    IF k > MAX_PARSE_ATTEMPTS - 1
    THEN {SuggestOutcome(raws, calls, "ok", COOLDOWN_FALLBACK_RATE)}
    ELSE {SuggestOutcome(raws, calls + 1, "ServiceError", Rat(0, 1))}
         \cup UNION {
             LET value == _parse_cooling_rate_from_response(raw)
             IN  IF value # [none |-> TRUE]
                 THEN {SuggestOutcome(Append(raws, raw), calls + 1, "ok",
                                      Clamp(value.value))}
                 ELSE SuggestRetry(replies, Append(raws, raw), calls + 1, k + 1)
             : raw \in replies}

\* SimulationAgent.get_llm_suggestion() (lines 75-94) when the LLM replies
\* from `replies`.
get_llm_suggestion(replies) ==
    {SuggestOutcome(<<>>, 1, "ServiceError", Rat(0, 1))}
    \cup UNION {
        LET value == _parse_cooling_rate_from_response(raw)
        IN  IF value # [none |-> TRUE]
            THEN {SuggestOutcome(<<raw>>, 1, "ok", Clamp(value.value))}
            ELSE SuggestRetry(replies, <<raw>>, 1, 1)
        : raw \in replies}

\* agent.run_simulation(rate) (lines 137-144, simulation.py lines 71-100):
\* the yield strength is the Hall-Petch value of the grain size that the
\* rate leads to, kept as a term of the rate; success is porosity <= 5,
\* and the porosity ends at 1.5 + 0.08 * ln(1 + max(0, rate - 10)) for the
\* default duration of 4 hours, which stays below 5 for every rate below
\* 10^19.
run_simulation(rate) ==
    [yield_strength_MPa |-> [hall_petch_of |-> rate], success |-> TRUE]

\* on_step(iteration, rate, yield_strength_MPa, success): what the callback
\* has been called with so far.
on_step(reported, given, iteration, rate, sim) ==
    IF given
    THEN Append(reported, [iteration |-> iteration, rate |-> rate,
                           y_MPa |-> sim.yield_strength_MPa,
                           success |-> sim.success])
    ELSE reported

LoopOutcome(history, reported, calls, status, returned) ==
    [history |-> history, reported |-> reported, calls |-> calls,
     status |-> status, returned |-> returned]

\* Mutant: the history of the earlier run is kept.
start_history_kept(old) == old

\* Line 154: self.history = []
start_history(old) == <<>>

\* Line 159: self.history.append((rate, yield_strength_MPa, success))
record(history, rate, sim) ==
    Append(history, <<rate, sim.yield_strength_MPa, sim.success>>)

\* Lines 157-163: the iterations from number k on, at cooling rate `rate`.
RECURSIVE LoopFrom(_, _, _, _, _, _, _, _)
LoopFrom(replies, max_iterations, given, history, rate, k, reported, calls) ==
    IF k > max_iterations
    THEN {LoopOutcome(history, reported, calls, "ok", history)}
    ELSE LET sim == run_simulation(rate)
             logged == record(history, rate, sim)
             told == on_step(reported, given, k, rate, sim)
         IN  UNION {
                 IF out.status # "ok"
                 THEN {LoopOutcome(logged, told, calls + out.calls,
                                   out.status, <<>>)}
                 ELSE LoopFrom(replies, max_iterations, given, logged,
                               out.value, k + 1, told, calls + out.calls)
                 : out \in get_llm_suggestion(replies)}

\* SimulationAgent.run_optimization_loop(initial, on_step) (lines 154-163).
run_optimization_loop(replies, self, initial, given) ==
    LoopFrom(replies, self.max_iterations, given, start_history(self.history),
             initial, 1, <<>>, 0)

\* What the LLM is taken to reply inside the loop.
LoopReplies == {"", "20", "250"}

InitialRates == {DEFAULT_COOLING_RATE, Rat(5, 1)}

\* A call of agent.run_optimization_loop(initial), with or without on_step.
run_optimization_loop_call ==
    /\ simOp = NoSimOp
    /\ \E initial \in InitialRates, given \in BOOLEAN :
        \E out \in run_optimization_loop(LoopReplies, agent, initial, given) :
            /\ agent' = [agent EXCEPT !.history = out.history]
            /\ simOp' = [NoSimOp EXCEPT !.op = "run_optimization_loop",
                                        !.initial = initial, !.on_step = given,
                                        !.calls = out.calls,
                                        !.status = out.status,
                                        !.before = agent.history,
                                        !.reported = out.reported,
                                        !.returned = out.returned]
    /\ UNCHANGED <<_STORE, restVars, lastOp>>
    /\ UNCHANGED notSimVars

\* A call of agent.get_llm_suggestion().
get_llm_suggestion_call ==
    /\ simOp = NoSimOp
    /\ \E out \in get_llm_suggestion(SimReplies) :
        simOp' = [NoSimOp EXCEPT !.op = "get_llm_suggestion",
                                 !.raws = out.raws, !.calls = out.calls,
                                 !.status = out.status, !.value = out.value,
                                 !.before = agent.history]
    /\ UNCHANGED agent
    /\ UNCHANGED <<_STORE, restVars, lastOp>>
    /\ UNCHANGED notSimVars

\* The caller takes what the method returned.
sim_returns ==
    /\ simOp # NoSimOp
    /\ simOp' = NoSimOp
    /\ UNCHANGED agent
    /\ UNCHANGED <<_STORE, restVars, lastOp>>
    /\ UNCHANGED notSimVars

\* SimulationAgent(provider, max_iterations=n) for small n.
IterationCounts == 0..3

Agents ==
    {[provider |-> p, max_iterations |-> n, history |-> <<>>]
     : p \in {"openai", "anthropic"}, n \in IterationCounts}

InitSim ==
    /\ _STORE = <<>>
    /\ fs = DiskWithNotes
    /\ environ = NoEnviron
    /\ AgentIdle
    /\ WrapperIdle
    /\ queried = NoQuery
    /\ ran = NoRun
    /\ agent \in Agents
    /\ simOp = NoSimOp
    /\ indexer = IndexerIdle
    /\ searcher = SearcherIdle
    /\ lastOp = NoCall
    /\ ChunkIdle

NextSim == get_llm_suggestion_call \/ run_optimization_loop_call \/ sim_returns

SpecSim == InitSim /\ [][NextSim]_vars

----------------------------------------------------------------------------
(* Calls from several threads: the steps of index() and search() between
   which another thread can run. There is no lock in the module. *)

\* What the threads pass: literal texts of one and of two chunks, one query,
\* and a top_k below and above the store sizes.
ThreadPathLists == UNION {[1..n -> {"hi", LongDoc}] : n \in 1..MaxInputs}
ThreadQueries == {"q"}
ThreadTopKs == {1, DEFAULT_TOP_K}

\* A thread calls index(paths).
index_call ==
    /\ indexer.pc = "idle"
    /\ \E paths \in ThreadPathLists :
        /\ Len(_STORE) + ChunkTotal(fs, paths, 1) <= MaxStore
        /\ indexer' = [IndexerIdle EXCEPT !.pc = "document", !.paths = paths,
                                          !.k = 1]
    /\ UNCHANGED <<_STORE, fs, environ, lastOp, agentVars, searcher>>
    /\ UNCHANGED <<chunkVars, otherVars>>

\* Lines 162-172 and 133-134 for input k: the text is read and chunked and
\* the provider is called; nothing of it touches _STORE. A failure ends the
\* call, and so does the end of the list.
index_document ==
    /\ indexer.pc = "document"
    /\ IF indexer.k > Len(indexer.paths)
       THEN indexer' = IndexerIdle
       ELSE LET doc == DocumentOf(fs, indexer.paths[indexer.k])
            IN  IF ~doc.ok
                THEN indexer' = IndexerIdle
                ELSE \E reply \in _embed(ContentsOf(doc.chunks)) :
                        IF ~reply.ok
                        THEN indexer' = IndexerIdle
                        ELSE indexer' =
                               [indexer EXCEPT
                                  !.pc = "append",
                                  !.entries = StoreEntries(doc.chunks,
                                                           reply.vectors),
                                  !.done = 0]
    /\ UNCHANGED <<_STORE, fs, environ, lastOp, agentVars, searcher>>
    /\ UNCHANGED <<chunkVars, otherVars>>

\* Lines 135-138: one iteration of the loop, one _STORE.append(entry).
index_append ==
    /\ indexer.pc = "append"
    /\ IF indexer.done < Len(indexer.entries)
       THEN /\ _STORE' = Append(_STORE, indexer.entries[indexer.done + 1])
            /\ indexer' = [indexer EXCEPT !.done = indexer.done + 1]
       ELSE /\ indexer' = [indexer EXCEPT !.pc = "document",
                                          !.k = indexer.k + 1,
                                          !.entries = <<>>, !.done = 0]
            /\ UNCHANGED _STORE
    /\ UNCHANGED <<fs, environ, lastOp, agentVars, searcher>>
    /\ UNCHANGED <<chunkVars, otherVars>>

\* A thread calls clear(): line 34, _STORE.clear().
clear_call ==
    /\ _STORE' = <<>>
    /\ UNCHANGED <<fs, environ, lastOp, agentVars, threadVars>>
    /\ UNCHANGED <<chunkVars, otherVars>>

\* A thread calls search(query, top_k): lines 205-206, the emptiness test.
search_call ==
    /\ searcher.pc = "idle"
    /\ \E query \in ThreadQueries, top_k \in ThreadTopKs :
          searcher' = [SearcherIdle EXCEPT
                         !.query = query, !.top_k = top_k,
                         !.pc = IF _STORE = <<>> THEN "done" ELSE "embed"]
    /\ UNCHANGED <<_STORE, fs, environ, lastOp, agentVars, indexer>>
    /\ UNCHANGED <<chunkVars, otherVars>>

\* Line 207: the provider call for the query.
search_embed ==
    /\ searcher.pc = "embed"
    /\ \E reply \in _embed(<<searcher.query>>) :
          searcher' = IF reply.ok
                      THEN [searcher EXCEPT !.pc = "read",
                                            !.q_vec = reply.vectors[1]]
                      ELSE [searcher EXCEPT !.pc = "done",
                                            !.status = "EmbeddingProviderError"]
    /\ UNCHANGED <<_STORE, fs, environ, lastOp, agentVars, indexer>>
    /\ UNCHANGED <<chunkVars, otherVars>>

\* Lines 208-213: the stored vectors are read, scored and sorted. np.dot
\* raises when no vector is left, or one of another length is there.
search_read ==
    /\ searcher.pc = "read"
    /\ IF _STORE = <<>> \/ ~SameShape(_STORE, searcher.q_vec)
       THEN searcher' = [searcher EXCEPT !.pc = "done", !.status = "ValueError"]
       ELSE LET scores == scores_of(_STORE, searcher.q_vec)
            IN  \E order \in argsort([k \in 1..Len(scores) |-> Neg(scores[k])]) :
                    searcher' = [searcher EXCEPT
                                   !.pc = "collect", !.scores = scores,
                                   !.indices = PyUpTo(order, searcher.top_k)]
    /\ UNCHANGED <<_STORE, fs, environ, lastOp, agentVars, indexer>>
    /\ UNCHANGED <<chunkVars, otherVars>>

\* Lines 214-222: the entries are read back from _STORE by position;
\* _STORE[idx] raises when the position is no longer there.
search_collect ==
    /\ searcher.pc = "collect"
    /\ searcher' =
          IF \E k \in 1..Len(searcher.indices) :
                searcher.indices[k] > Len(_STORE)
          THEN [searcher EXCEPT !.pc = "done", !.status = "IndexError"]
          ELSE [searcher EXCEPT
                  !.pc = "done",
                  !.results = ResultsFor(_STORE, searcher.scores,
                                         searcher.indices)]
    /\ UNCHANGED <<_STORE, fs, environ, lastOp, agentVars, indexer>>
    /\ UNCHANGED <<chunkVars, otherVars>>

\* The caller of search() takes the outcome.
search_return ==
    /\ searcher.pc = "done"
    /\ searcher' = SearcherIdle
    /\ UNCHANGED <<_STORE, fs, environ, lastOp, agentVars, indexer>>
    /\ UNCHANGED <<chunkVars, otherVars>>

NextThreads ==
    \/ index_call
    \/ index_document
    \/ index_append
    \/ clear_call
    \/ search_call
    \/ search_embed
    \/ search_read
    \/ search_collect
    \/ search_return

SpecThreads == Init /\ [][NextThreads]_vars

\* The same calls, on a disk with or without docs/notes.txt.
SpecDisk == InitDisk /\ [][Next]_vars

----------------------------------------------------------------------------
(* _chunk on its own: the inputs are drawn from bounded sets *)

InitChunk ==
    /\ _STORE = <<>>
    /\ fs = DiskWithNotes
    /\ environ = NoEnviron
    /\ AgentIdle
    /\ OthersIdle
    /\ indexer = IndexerIdle
    /\ searcher = SearcherIdle
    /\ lastOp = NoCall
    /\ text \in Texts
    /\ chunk_size \in 1..MaxChunkSize
    /\ overlap \in 0..MaxChunkSize
    /\ i = 0
    /\ idx = 0
    /\ chunks = <<>>
    /\ pc = "loop"

NextChunk == ChunkStep \/ ChunkReturn

SpecChunk == InitChunk /\ [][NextChunk]_vars

----------------------------------------------------------------------------
(* Properties of _chunk (checked under SpecChunk) *)

WellFormed == chunk_size > overlap /\ overlap >= 0

\* The first chunk whole and every later chunk without its first `ovl`
\* characters, concatenated in chunk order from chunk k on.
RECURSIVE Reassemble(_, _, _)
Reassemble(cs, ovl, k) ==
    IF k > Len(cs) THEN ""
    ELSE (IF k = 1 THEN cs[k].content ELSE PyFrom(cs[k].content, ovl))
            \o Reassemble(cs, ovl, k + 1)

\* The offset in the text at which chunk k starts if every chunk starts `ovl`
\* characters before the end of the chunk before it, and the first at 0.
RECURSIVE WindowStart(_, _, _)
WindowStart(cs, ovl, k) ==
    IF k = 1 THEN 0
    ELSE WindowStart(cs, ovl, k - 1) + Len(cs[k - 1].content) - ovl

\* The first k and the last k characters of s.
FirstChars(s, k) == SubSeq(s, 1, k)
LastChars(s, k) == SubSeq(s, Len(s) - k + 1, Len(s))

\* C2: for every non-empty text and chunk_size > overlap >= 0, the first chunk
\* of the returned list followed by every later chunk without its first
\* `overlap` characters is exactly the text.
C2_CoverageReassembles ==
    (pc = "returned" /\ text # "" /\ WellFormed)
        => Reassemble(chunks, overlap, 1) = text

\* C2 witness: a returned list of three or more overlapping chunks of a text
\* that holds both letters.
C2_Witness ==
    /\ pc = "returned"
    /\ WellFormed
    /\ overlap >= 1
    /\ Len(chunks) >= 3
    /\ text \notin {Rep("a", Len(text)), Rep("b", Len(text))}

\* C9 (as claimed): with chunk_size <= overlap and a non-empty text, _chunk
\* fails before it produces anything: no chunk is ever appended and no list is
\* ever returned.
C9_FailsFast ==
    (text # "" /\ chunk_size <= overlap)
        => (chunks = <<>> /\ pc # "returned")

\* C10: for chunk_size > overlap >= 0, every chunk after the first is the text
\* from the offset `overlap` characters before the end of its predecessor, so
\* its first `overlap` characters are the last `overlap` of the predecessor.
C10_OverlapExact ==
    (pc \in {"loop", "returned"} /\ WellFormed)
        => \A k \in 2..Len(chunks) :
              LET prev == chunks[k - 1].content
                  cur == chunks[k].content
                  start == WindowStart(chunks, overlap, k)
              IN  /\ cur = PySlice(text, start, start + Len(cur))
                  /\ Len(cur) > overlap
                  /\ Len(prev) > overlap
                  /\ FirstChars(cur, overlap) = LastChars(prev, overlap)

\* C10 witness: "aabab" cut with chunk_size 3 and overlap 2 into three chunks.
C10_Witness ==
    /\ pc = "returned"
    /\ text = "aabab"
    /\ chunk_size = 3
    /\ overlap = 2
    /\ Len(chunks) = 3
    /\ chunks[2].content = "aba"

\* ceil(a / b) for a >= 0 and b > 0.
CeilDiv(a, b) == (a + b - 1) \div b

\* C11: for a text of length n > 0 and chunk_size c > overlap o >= 0, _chunk
\* returns 1 chunk when n <= c and 1 + ceil((n - c) / (c - o)) chunks when
\* n > c; chunk_index runs 0, 1, 2, ... in list order, every chunk but the
\* last has exactly c characters, and the last chunk is the end of the text.
C11_ChunkCount ==
    (pc = "returned" /\ text # "" /\ WellFormed)
        => LET n == Len(text)
               count == Len(chunks)
           IN  /\ count = IF n <= chunk_size THEN 1
                          ELSE 1 + CeilDiv(n - chunk_size, chunk_size - overlap)
               /\ \A k \in 1..count : chunks[k].chunk_index = k - 1
               /\ \A k \in 1..(count - 1) : Len(chunks[k].content) = chunk_size
               /\ Len(chunks[count].content) >= 1
               /\ chunks[count].content =
                      LastChars(text, Len(chunks[count].content))

\* C11 witness: "ababb" cut with chunk_size 3 and overlap 1: 1 + ceil(2 / 2)
\* chunks, indexed 0 and 1, the second one the last three characters.
C11_Witness ==
    /\ pc = "returned"
    /\ text = "ababb"
    /\ chunk_size = 3
    /\ overlap = 1
    /\ Len(chunks) = 2
    /\ chunks[2].chunk_index = 1
    /\ chunks[2].content = "abb"

----------------------------------------------------------------------------
(* Properties of the store (checked under Spec) *)

\* The query vector the provider returned to a search that got one.
QueryVector(call) == call.calls[1].vectors[1]

\* What search returns for a stored entry: its text fields and its score.
ResultView(e, q_vec) ==
    [content |-> e.content, source |-> e.source, title |-> e.title,
     score |-> Score(e.vector, q_vec)]

CountIn(seq, x) == Cardinality({k \in 1..Len(seq) : seq[k] = x})

\* `results` is a top-k of `store` for the query vector: min(k, size) results,
\* scores not increasing, each result a stored chunk taken at most as often as
\* it is stored, and every stored chunk left out scores no more than any
\* result.
IsTopK(store, q_vec, k, results) ==
    LET views == [m \in 1..Len(store) |-> ResultView(store[m], q_vec)]
        r == Len(results)
    IN  /\ r = Min(k, Len(store))
        /\ \A a \in 1..(r - 1) : ~Less(results[a].score, results[a + 1].score)
        /\ \A j \in 1..r : \E m \in 1..Len(views) : results[j] = views[m]
        /\ \A m \in 1..Len(views) :
              /\ CountIn(results, views[m]) <= CountIn(views, views[m])
              /\ CountIn(results, views[m]) < CountIn(views, views[m])
                    => \A j \in 1..r : ~Less(results[j].score, views[m].score)

\* C1: on a non-empty store and with top_k >= 1, a search that returns gives
\* exactly min(top_k, store_size()) results, in non-increasing score order,
\* and they are a top-k of the whole store.
C1_SearchReturnsTopK ==
    [][(Ready /\ lastOp'.op = "search" /\ lastOp'.status = "ok"
            /\ _STORE # <<>> /\ lastOp'.top_k >= 1)
        => IsTopK(_STORE, QueryVector(lastOp'), lastOp'.top_k, lastOp'.results)]_vars

\* C1 witness: three chunks scoring 0, 3/5 and 1 for the query vector, and
\* search(query, 2) returned the two best, the best first.
C1_Witness ==
    /\ lastOp.op = "search"
    /\ lastOp.status = "ok"
    /\ lastOp.top_k = 2
    /\ Len(_STORE) = 3
    /\ _STORE[1].vector = <<0, 0>>
    /\ _STORE[2].vector = <<3, 4>>
    /\ _STORE[3].vector = <<1, 0>>
    /\ QueryVector(lastOp) = <<1, 0>>
    /\ Len(lastOp.results) = 2
    /\ Less(lastOp.results[2].score, lastOp.results[1].score)

\* The entries index() appends for inputs k..upto when nothing fails: every
\* chunk of the input once, in order, with the vector at the same position of
\* the reply to that input's provider call.
RECURSIVE ExpectedEntries(_, _, _, _, _)
ExpectedEntries(disk, paths, calls, k, upto) ==
    IF k > upto THEN <<>>
    ELSE LET cs == DocumentOf(disk, paths[k]).chunks
         IN  [j \in 1..Len(cs) |->
                [content |-> cs[j].content, source |-> cs[j].source,
                 title |-> cs[j].title, chunk_index |-> cs[j].chunk_index,
                 vector |-> calls[k].vectors[j]]]
             \o ExpectedEntries(disk, paths, calls, k + 1, upto)

\* Provider call k of an index() call carried the chunk texts of input k and
\* got one vector for each.
AnsweredCall(disk, paths, calls, k) ==
    /\ calls[k].ok
    /\ calls[k].texts = ContentsOf(DocumentOf(disk, paths[k]).chunks)
    /\ Len(calls[k].vectors) = Len(calls[k].texts)

\* C3: an index(inputs) that returns normally grows the store by the number
\* of chunks _chunk produces over all inputs, each chunk stored once with the
\* vector the provider returned at its position of its document's batch.
C3_IndexStoresEveryChunk ==
    [][(Ready /\ lastOp'.op = "index" /\ lastOp'.status = "ok")
        => LET paths == lastOp'.inputs
               calls == lastOp'.calls
           IN  /\ Len(calls) = Len(paths)
               /\ \A k \in 1..Len(paths) : AnsweredCall(fs, paths, calls, k)
               /\ Len(_STORE') = Len(_STORE) + ChunkTotal(fs, paths, 1)
               /\ _STORE' = _STORE \o ExpectedEntries(fs, paths, calls, 1,
                                                      Len(paths))]_vars

\* C3 witness: index([LongDoc, "docs/notes.txt"]) returned normally; the two
\* chunks of LongDoc got different vectors.
C3_Witness ==
    /\ lastOp.op = "index"
    /\ lastOp.status = "ok"
    /\ lastOp.inputs = <<LongDoc, NotesPath>>
    /\ lastOp.calls[1].vectors = << <<1, 0>>, <<3, 4>> >>
    /\ Len(_STORE) = 3
    /\ _STORE[3].source = NotesPath

\* C4: when index(inputs) fails at input j, the caller gets the error, the
\* store is its prior contents plus the chunks of the inputs before j and
\* nothing of input j, and no input after j is touched: the provider was
\* called for the inputs before j and at most once more, for input j.
C4_IndexFailureKeepsPrefix ==
    [][(Ready /\ lastOp'.op = "index" /\ lastOp'.status # "ok")
        => LET paths == lastOp'.inputs
               calls == lastOp'.calls
               j == lastOp'.failedAt
           IN  /\ j \in 1..Len(paths)
               /\ lastOp'.status \in {"IOError", "EmbeddingProviderError"}
               /\ Len(calls) \in {j - 1, j}
               /\ \A k \in 1..(j - 1) : AnsweredCall(fs, paths, calls, k)
               /\ Len(calls) = j
                     => /\ ~calls[j].ok
                        /\ calls[j].texts =
                              ContentsOf(DocumentOf(fs, paths[j]).chunks)
               /\ _STORE' = _STORE \o ExpectedEntries(fs, paths, calls, 1,
                                                      j - 1)]_vars

\* C4 witness: index(["hi", LongDoc]) failed in the provider call for the two
\* chunks of LongDoc; the chunk of "hi" is stored, none of LongDoc.
C4_Witness ==
    /\ lastOp.op = "index"
    /\ lastOp.status = "EmbeddingProviderError"
    /\ lastOp.inputs = <<"hi", LongDoc>>
    /\ lastOp.failedAt = 2
    /\ Len(lastOp.calls) = 2
    /\ Len(lastOp.calls[2].texts) = 2
    /\ Len(_STORE) = 1
    /\ _STORE[1].content = "hi"

\* C5: a search on an empty store returns the empty list and makes no call of
\* the embedding provider, whatever the query and top_k.
C5_EmptyStoreNoProviderCall ==
    [][(Ready /\ lastOp'.op = "search" /\ _STORE = <<>>)
        => /\ lastOp'.status = "ok"
           /\ lastOp'.results = <<>>
           /\ lastOp'.calls = <<>>]_vars

\* C5 witness: search("q") with the default top_k has returned on an empty
\* store.
C5_Witness ==
    /\ lastOp.op = "search"
    /\ lastOp.query = "q"
    /\ lastOp.top_k = DEFAULT_TOP_K
    /\ _STORE = <<>>
    /\ lastOp.results = <<>>

\* C6: a search call leaves the store as it was, entries and order, whether
\* it returns results, returns [] or fails in the provider.
C6_SearchLeavesStore ==
    [][(Ready /\ lastOp'.op = "search") => _STORE' = _STORE]_vars

\* C6 witness: a search on a store of three entries failed in the provider.
C6_Witness ==
    /\ lastOp.op = "search"
    /\ lastOp.status = "EmbeddingProviderError"
    /\ Len(_STORE) = 3

\* The positions of `scores` by non-increasing score, equal scores by
\* increasing position (a stable sort).
RECURSIVE StableOrder(_, _)
StableOrder(scores, remaining) ==
    IF remaining = {} THEN <<>>
    ELSE LET best == {m \in remaining :
                        \A j \in remaining : ~Less(scores[m], scores[j])}
             first == CHOOSE m \in best : \A j \in best : m <= j
         IN  <<first>> \o StableOrder(scores, remaining \ {first})

\* C7 (as claimed): chunks of equal score are ranked by their position in the
\* store, in the returned order and at the top_k cut: a search that returns
\* gives the first top_k entries of the stable order.
C7_TiesInStoreOrder ==
    (lastOp.op = "search" /\ lastOp.status = "ok" /\ _STORE # <<>>)
        => LET scores == scores_of(_STORE, QueryVector(lastOp))
           IN  lastOp.results =
                  ResultsFor(_STORE, scores,
                             PyUpTo(StableOrder(scores, 1..Len(scores)),
                                    lastOp.top_k))

\* C8 (as claimed): a search with an empty query or with top_k < 1 fails with
\* InvalidArgument, returns no list and makes no provider call.
C8_InvalidArgument ==
    (lastOp.op = "search" /\ (lastOp.query = "" \/ lastOp.top_k < 1))
        => /\ lastOp.status = "InvalidArgument"
           /\ lastOp.results = <<>>
           /\ lastOp.calls = <<>>

IsZeroVector(v) == \A k \in 1..Len(v) : v[k] = 0
IsZeroScore(sc) == sc.num = 0 /\ sc.den > 0

\* The text fields of a result or of a stored entry.
TextFields(r) == [content |-> r.content, source |-> r.source, title |-> r.title]

\* C12: a search on a non-empty store returns normally whenever the provider
\* answered; when the query vector is all zeros every result has score
\* exactly 0, and when the whole store is returned every stored chunk with an
\* all-zero vector is returned with score exactly 0.
C12_ZeroVectorsScoreZero ==
    (lastOp.op = "search" /\ _STORE # <<>> /\ lastOp.calls[1].ok)
        => LET q_vec == QueryVector(lastOp)
               results == lastOp.results
               zeros(t) == {m \in 1..Len(_STORE) :
                               /\ IsZeroVector(_STORE[m].vector)
                               /\ TextFields(_STORE[m]) = t}
               zeroResults(t) == {j \in 1..Len(results) :
                                     /\ TextFields(results[j]) = t
                                     /\ IsZeroScore(results[j].score)}
           IN  /\ lastOp.status = "ok"
               /\ IsZeroVector(q_vec)
                     => \A j \in 1..Len(results) : IsZeroScore(results[j].score)
               /\ Len(results) = Len(_STORE)
                     => \A m \in 1..Len(_STORE) :
                           Cardinality(zeroResults(TextFields(_STORE[m])))
                              >= Cardinality(zeros(TextFields(_STORE[m])))

\* C12 witness: a store with an all-zero vector and a non-zero one, searched
\* with a non-zero query vector; both chunks returned, the zero one last with
\* score 0.
C12_Witness ==
    /\ lastOp.op = "search"
    /\ lastOp.status = "ok"
    /\ Len(_STORE) = 2
    /\ _STORE[1].vector = <<0, 0>>
    /\ _STORE[2].vector = <<3, 4>>
    /\ QueryVector(lastOp) = <<1, 0>>
    /\ Len(lastOp.results) = 2
    /\ lastOp.results[2].content = _STORE[1].content
    /\ lastOp.results[2].score = [num |-> 0, den |-> 1]

\* The number of inputs of an index() call whose chunks were stored.
InputsStored(call) ==
    IF call.status = "ok" THEN Len(call.inputs) ELSE call.failedAt - 1

IsPrefix(a, b) == Len(a) <= Len(b) /\ \A m \in 1..Len(a) : b[m] = a[m]

\* C14: index only appends: the entries present before the call stay,
\* unchanged and at their positions, and the new entries follow in arrival
\* order, the inputs in list order and the chunks of an input by increasing
\* chunk_index; a step that removes or changes an entry is a clear(), and
\* clear() leaves no entry.
C14_IndexOnlyAppends ==
    [][/\ (Ready /\ lastOp'.op = "index")
            => LET paths == lastOp'.inputs
                   expected == ExpectedEntries(fs, paths, lastOp'.calls, 1,
                                               InputsStored(lastOp'))
                   added == SubSeq(_STORE', Len(_STORE) + 1, Len(_STORE'))
               IN  /\ IsPrefix(_STORE, _STORE')
                   /\ added = expected
                   /\ \A m \in 1..(Len(added) - 1) :
                         \/ added[m + 1].chunk_index = added[m].chunk_index + 1
                         \/ added[m + 1].chunk_index = 0
       /\ ~IsPrefix(_STORE, _STORE')
            => (Ready /\ lastOp'.op = "clear" /\ _STORE' = <<>>)
       /\ (Ready /\ lastOp'.op = "clear") => _STORE' = <<>>]_vars

\* C14 witness: index([LongDoc]) on a store holding the chunk of "hi" put the
\* two chunks of LongDoc behind it, chunk 0 before chunk 1.
C14_Witness ==
    /\ lastOp.op = "index"
    /\ lastOp.status = "ok"
    /\ lastOp.inputs = <<LongDoc>>
    /\ Len(_STORE) = 3
    /\ _STORE[1].content = "hi"
    /\ _STORE[2].chunk_index = 0
    /\ _STORE[3].chunk_index = 1
    /\ _STORE[3].source = "inline"

\* The inputs of an index() call that it got to: all of them when it returned
\* normally, those up to the failing one otherwise.
InputsReached(call) ==
    IF call.status = "ok" THEN Len(call.inputs) ELSE call.failedAt

\* The inputs among the first `upto` whose text index() obtained.
DocumentsRead(disk, paths, upto) ==
    {k \in 1..upto : DocumentOf(disk, paths[k]).ok}

\* C16: index calls the embedding provider once for each document it got
\* to, in input order, with the chunk texts of that document, and search on a
\* non-empty store calls it once, with the query; a failed call is the last
\* call of the operation, and the operation ends with the provider error and
\* without results.
C16_OneProviderCallEach ==
    LET calls == lastOp.calls
        failed == {k \in 1..Len(calls) : ~calls[k].ok}
    IN  /\ lastOp.op = "index"
            => LET paths == lastOp.inputs
                   docs == DocumentsRead(fs, paths, InputsReached(lastOp))
               IN  /\ Len(calls) = Cardinality(docs)
                   /\ docs = 1..Len(calls)
                   /\ \A k \in docs :
                         calls[k].texts =
                            ContentsOf(DocumentOf(fs, paths[k]).chunks)
                   /\ \A k \in failed :
                         /\ k = Len(calls)
                         /\ lastOp.status = "EmbeddingProviderError"
                         /\ lastOp.failedAt = k
        /\ (lastOp.op = "search" /\ _STORE # <<>>)
            => /\ Len(calls) = 1
               /\ calls[1].texts = <<lastOp.query>>
               /\ failed # {}
                     => /\ lastOp.status = "EmbeddingProviderError"
                        /\ lastOp.results = <<>>
               /\ failed = {} => lastOp.status = "ok"

\* C16 witness: index([LongDoc, "hi"]) called the provider once with the two
\* chunk texts of LongDoc and once with "hi"; the second call failed and the
\* index call ended with the provider error.
C16_Witness ==
    /\ lastOp.op = "index"
    /\ lastOp.inputs = <<LongDoc, "hi">>
    /\ Len(lastOp.calls) = 2
    /\ Len(lastOp.calls[1].texts) = 2
    /\ lastOp.calls[1].ok
    /\ lastOp.calls[2].texts = <<"hi">>
    /\ ~lastOp.calls[2].ok
    /\ lastOp.status = "EmbeddingProviderError"
    /\ Len(_STORE) = 2

\* C17: clear() empties the store from any store state, an empty one
\* included, and returns normally: store_size() is 0 after every clear(), so
\* also after a clear() that follows a clear().
C17_ClearEmptiesAlways ==
    [][(Ready /\ lastOp'.op = "clear")
        => /\ store_size' = 0
           /\ lastOp'.status = "ok"
           /\ store_size = 0 => _STORE' = _STORE]_vars

\* C17 witness: a clear() returned, and the store is empty.
C17_Witness ==
    /\ lastOp.op = "clear"
    /\ lastOp.status = "ok"
    /\ store_size = 0
    /\ _STORE = <<>>

ResultKeys == {"content", "source", "title", "score"}

\* C18: every element search returns has exactly the keys content, source,
\* title and score; it is one stored chunk's content, source and title with
\* the cosine similarity of that chunk's vector to the query vector; and the
\* results can be assigned to distinct stored chunks, so none is returned
\* twice.
C18_ResultSchema ==
    (lastOp.op = "search" /\ lastOp.status = "ok")
        => LET results == lastOp.results
               views == [m \in 1..Len(_STORE) |->
                            ResultView(_STORE[m], QueryVector(lastOp))]
           IN  /\ \A j \in 1..Len(results) :
                     /\ DOMAIN results[j] = ResultKeys
                     /\ \E m \in 1..Len(_STORE) :
                           /\ results[j].content = _STORE[m].content
                           /\ results[j].source = _STORE[m].source
                           /\ results[j].title = _STORE[m].title
                           /\ results[j].score =
                                 Score(_STORE[m].vector, QueryVector(lastOp))
               /\ \A j \in 1..Len(results) :
                     CountIn(results, results[j]) <= CountIn(views, results[j])

\* C18 witness: the store holds the chunk "hi" twice with the same vector
\* and the chunk of the notes file; a search returned all three, the two
\* equal results and the file's chunk with its path and file name.
C18_Witness ==
    /\ lastOp.op = "search"
    /\ lastOp.status = "ok"
    /\ Len(_STORE) = 3
    /\ _STORE[1] = _STORE[2]
    /\ _STORE[1].content = "hi"
    /\ _STORE[3].source = NotesPath
    /\ Len(lastOp.results) = 3
    /\ \E j \in 1..3 :
          /\ lastOp.results[j].source = NotesPath
          /\ lastOp.results[j].title = "notes.txt"
          /\ lastOp.results[j].content = "note"
    /\ CountIn(lastOp.results,
               ResultView(_STORE[1], QueryVector(lastOp))) = 2

----------------------------------------------------------------------------
(* File or literal text (checked under SpecDisk) *)

\* The entries an index() call that returned normally stored for input k.
RECURSIVE ChunksBefore(_, _, _)
ChunksBefore(disk, paths, k) ==
    IF k <= 1 THEN 0
    ELSE ChunksBefore(disk, paths, k - 1)
            + Len(DocumentOf(disk, paths[k - 1]).chunks)

StoredFor(k) ==
    LET paths == lastOp.inputs
        first == Len(_STORE) - ChunkTotal(fs, paths, 1)
                    + ChunksBefore(fs, paths, k)
    IN  SubSeq(_STORE, first + 1,
               first + Len(DocumentOf(fs, paths[k]).chunks))

\* `entries` are the chunks of `txt` under the default chunking, with the
\* given source and title.
StoredAs(entries, txt, source, title) ==
    LET cs == _chunk(txt, source, title, DEFAULT_CHUNK_SIZE, DEFAULT_OVERLAP)
    IN  /\ Len(entries) = Len(cs)
        /\ \A j \in 1..Len(cs) :
              /\ entries[j].content = cs[j].content
              /\ entries[j].source = source
              /\ entries[j].title = title
              /\ entries[j].chunk_index = j - 1

\* C19 as stated: a string that is literal text on some disk is stored
\* verbatim, with source "inline" and title "Inline Text", on every disk.
C19_LiteralTextIgnoresDisk ==
    (lastOp.op = "index" /\ lastOp.status = "ok")
        => \A k \in 1..Len(lastOp.inputs) :
              (\E d \in Disks : ~isfile(d, lastOp.inputs[k]))
                 => StoredAs(StoredFor(k), lastOp.inputs[k], "inline",
                             "Inline Text")

\* C19 amended: the core decides by the disk at the time of the call: an
\* input that is the path of an existing file is stored as that file's text,
\* with the path as source and the file name as title, and any other input
\* is stored verbatim with source "inline" and title "Inline Text".
C19_DiskDecidesFileOrText ==
    (lastOp.op = "index" /\ lastOp.status = "ok")
        => \A k \in 1..Len(lastOp.inputs) :
              LET p == lastOp.inputs[k]
              IN  IF p \in DOMAIN fs
                  THEN StoredAs(StoredFor(k), fs[p].content, p, basename(p))
                  ELSE StoredAs(StoredFor(k), p, "inline", "Inline Text")

\* C19 witness: on the disk without docs/notes.txt, index(["docs/notes.txt",
\* "hi"]) stored the string itself as inline text.
C19_Witness ==
    /\ fs = DiskWithoutNotes
    /\ lastOp.op = "index"
    /\ lastOp.status = "ok"
    /\ lastOp.inputs = <<NotesPath, "hi">>
    /\ Len(_STORE) = 2
    /\ _STORE[1].content = NotesPath
    /\ _STORE[1].source = "inline"
    /\ _STORE[1].title = "Inline Text"

----------------------------------------------------------------------------
(* Dimensionality (checked under SpecEnv) *)

\* C13: in every reachable state all stored vectors have the same length:
\* no vector of another dimensionality than the stored ones is appended.
C13_UniformDimensionality ==
    \A a, b \in 1..Len(_STORE) :
        Len(_STORE[a].vector) = Len(_STORE[b].vector)

----------------------------------------------------------------------------
(* Concurrent callers (checked under SpecThreads) *)

\* The indexing thread has appended some chunks of its current document, not
\* all, and they are in the store.
PartlyInserted ==
    /\ indexer.pc = "append"
    /\ indexer.done \in 1..(Len(indexer.entries) - 1)
    /\ Len(_STORE) >= indexer.done
    /\ SubSeq(_STORE, Len(_STORE) - indexer.done + 1, Len(_STORE))
          = SubSeq(indexer.entries, 1, indexer.done)

\* C15: a search never reads the stored vectors while a document is partly
\* inserted: what it scores is a store between complete operations.
C15_ConsistentSnapshot ==
    [][(searcher.pc = "read" /\ searcher'.pc = "collect") => ~PartlyInserted]_vars

----------------------------------------------------------------------------
(* The agent (checked under SpecAgent) *)

IsIn(x, seq) == \E k \in 1..Len(seq) : seq[k] = x

\* C20: ask() consults the knowledge base first, query_openai for the
\* OpenAI provider and search for the Anthropic provider; a web-search
\* request is made only after a lookup that yielded nothing, as the request
\* right after it; and after a lookup that yielded a result there is no
\* web-search request: the answer is the assistant's, or the completion's.
C20_KnowledgeBaseFirst ==
    asked.op = "ask"
        => /\ Len(asked.requests) >= 1
           /\ asked.requests[1] = IF asked.provider = "anthropic" THEN "search"
                                   ELSE "query_openai"
           /\ IsIn("web_search", asked.requests)
                 => /\ ~asked.hit
                    /\ Len(asked.requests) = 2
                    /\ asked.requests[2] = "web_search"
           /\ asked.hit => ~IsIn("web_search", asked.requests)
           /\ (asked.hit /\ asked.status = "ok")
                 => asked.requests[Len(asked.requests)] =
                       IF asked.provider = "anthropic" THEN "complete"
                       ELSE "query_openai"

\* C20 witness: with the OpenAI provider and an assistant set, the assistant
\* answered from the files and ask() returned that answer with no other
\* request.
C20_Witness ==
    /\ asked.op = "ask"
    /\ asked.provider = "openai"
    /\ _ASSISTANT_ID # None
    /\ asked.hit
    /\ asked.requests = <<"query_openai">>
    /\ asked.status = "ok"
    /\ asked.answer = "answer"

----------------------------------------------------------------------------
(* The wrapper (checked under SpecWrapper) *)

\* C21: complete_with_knowledge leaves the caller's message list as it was:
\* same length, same order, same role and content of every message, for
\* either provider and whatever the search returned.
C21_CallerMessagesKept ==
    wrapped.op = "complete_with_knowledge" => messages = wrapped.given

\* C21 witness: with the Anthropic provider and two chunks found, the list
\* handed to complete() differs from the caller's [user "hi"], which is kept.
C21_Witness ==
    /\ wrapped.op = "complete_with_knowledge"
    /\ wrapped.provider = "anthropic"
    /\ Len(wrapped.results) = 2
    /\ wrapped.given = <<Message("user", Str("hi"))>>
    /\ Len(wrapped.sent) = 1
    /\ wrapped.sent[1] # wrapped.given
    /\ messages = <<Message("user", Str("hi"))>>

\* C22: when the search returns no results, no context is injected: the
\* list handed to complete() equals the list the caller gave, in the OpenAI
\* and in the Anthropic format.
C22_NoResultsNoContext ==
    (/\ wrapped.op = "complete_with_knowledge"
     /\ wrapped.results = <<>>
     /\ Len(wrapped.sent) = 1)
        => wrapped.sent[1] = wrapped.given

\* The search inside the call returned (it did not raise).
SearchReturned == wrapped.status \in {"ok", "ServiceError"}

\* C23: in the Anthropic format complete() is called exactly once, with a
\* list that differs from the caller's only in the first user message: its
\* content is a list holding one search_result block per result (source,
\* title, one text block with the chunk's content) in reverse rank order,
\* followed by the original content, a string being kept as the last block
\* {type: text, text: original}.
C23_AnthropicFirstUserMessage ==
    (/\ wrapped.op = "complete_with_knowledge"
     /\ wrapped.provider = "anthropic"
     /\ SearchReturned)
        => /\ Len(wrapped.sent) = 1
           /\ LET given == wrapped.given
                  out == wrapped.sent[1]
                  n == Len(wrapped.results)
                  u == FirstUser(given)
              IN  /\ Len(out) = Len(given)
                  /\ \A k \in 1..Len(given) : k # u => out[k] = given[k]
                  /\ u # 0 =>
                        /\ out[u].role = "user"
                        /\ DOMAIN out[u].content = {"list"}
                        /\ LET blocks == out[u].content.list
                               kept == IF IsStr(given[u].content)
                                       THEN <<TextBlock(given[u].content.str)>>
                                       ELSE given[u].content.list
                           IN  /\ Len(blocks) = n + Len(kept)
                               /\ \A j \in 1..n :
                                    /\ blocks[j].type = "search_result"
                                    /\ blocks[j].source = wrapped.results[n + 1 - j].source
                                    /\ blocks[j].title = wrapped.results[n + 1 - j].title
                                    /\ blocks[j].content =
                                         <<TextBlock(wrapped.results[n + 1 - j].content)>>
                               /\ SubSeq(blocks, n + 1, Len(blocks)) = kept

\* C23 witness: two different chunks found for a list with a system message
\* and two user messages; the first user message "one" carries the second
\* result, then the first, then its own text, and "two" is untouched.
C23_Witness ==
    /\ wrapped.op = "complete_with_knowledge"
    /\ wrapped.provider = "anthropic"
    /\ Len(wrapped.results) = 2
    /\ wrapped.results[1].content # wrapped.results[2].content
    /\ Len(wrapped.sent) = 1
    /\ Len(wrapped.given) = 3
    /\ wrapped.sent[1][2].content =
         List(<<SearchBlock(wrapped.results[2]), SearchBlock(wrapped.results[1]),
                TextBlock("one")>>)
    /\ wrapped.sent[1][3] = Message("user", Str("two"))

----------------------------------------------------------------------------
(* The hosted file store (checked under SpecFileStore) *)

\* C24: in any sequence of clear_openai, upload_files and query_openai
\* calls, a call of query_openai contacts the hosted service only when an
\* assistant ID is set, returns "" without contacting it when none is set,
\* and leaves _VECTOR_STORE_ID and _ASSISTANT_ID as they were.
C24_QueryNeedsAssistant ==
    [][query_openai_call =>
        /\ queried'.contacted => _ASSISTANT_ID # None
        /\ _ASSISTANT_ID = None =>
              /\ ~queried'.contacted
              /\ queried'.status = "ok"
              /\ queried'.text = ""
        /\ _VECTOR_STORE_ID' = _VECTOR_STORE_ID
        /\ _ASSISTANT_ID' = _ASSISTANT_ID]_vars

\* C24 witness: after an upload the assistant is set and a query has been
\* answered by the service with both IDs in place.
C24_Witness ==
    /\ queried.op = "query_openai"
    /\ queried.contacted
    /\ queried.text = "answer"
    /\ _ASSISTANT_ID = "asst_1"
    /\ _VECTOR_STORE_ID = "vs_1"

----------------------------------------------------------------------------
(* The linear pipeline (checked under SpecLinear) *)

\* The tasks a call of run() is to run: its tasks argument, or all of
\* processor.TASKS when the argument is None.
TasksToRun == IF ran.tasks = NoTasks THEN TASKS ELSE ran.tasks.list

\* The number of the last process call for task t among calls 2..n+1.
LastCallFor(t, n) ==
    CHOOSE k \in 2..(n + 1) :
        /\ ran.calls[k].task = t
        /\ \A j \in (k + 1)..(n + 1) : ran.calls[j].task # t

\* C25: run() calls extract once, first, with input_text; then process once
\* per entry of the task list, in list order, each with the extraction that
\* extract returned; then summarize once, after every process call, with the
\* input, that extraction and the mapping from task to result; and it
\* returns a dict with exactly the keys summary, extraction and processing.
C25_ExtractProcessSummarize ==
    ran.op = "run" =>
        LET tl == TasksToRun
            n == Len(tl)
            calls == ran.calls
        IN  /\ Len(calls) >= 1
            /\ Len(calls) <= n + 2
            /\ calls[1].fn = "extract"
            /\ calls[1].text = ran.input_text
            /\ \A k \in 2..Len(calls) :
                  IF k <= n + 1
                  THEN /\ calls[k].fn = "process"
                       /\ calls[k].task = tl[k - 1]
                       /\ calls[k].data = calls[1].ret
                  ELSE /\ calls[k].fn = "summarize"
                       /\ calls[k].text = ran.input_text
                       /\ calls[k].data = calls[1].ret
                       /\ DOMAIN calls[k].processing = {tl[j] : j \in 1..n}
                       /\ \A j \in 1..n :
                            calls[k].processing[tl[j]] =
                                calls[LastCallFor(tl[j], n)].ret
            /\ ran.status = "ok" =>
                  /\ Len(calls) = n + 2
                  /\ ran.keys = {"summary", "extraction", "processing"}
                  /\ ran.summary = calls[n + 2].ret
                  /\ ran.extraction = calls[1].ret
                  /\ DOMAIN ran.processing = {tl[j] : j \in 1..n}
                  /\ \A j \in 1..n :
                        ran.processing[tl[j]] = calls[n + 2].processing[tl[j]]

\* C25 witness: run("x", ["risk_ranking", "schema_validation"]) returned
\* after four calls, the two process calls in list order with different
\* results, both in the mapping that summarize got.
C25_Witness ==
    /\ ran.op = "run"
    /\ ran.status = "ok"
    /\ ran.tasks = TaskList(<<"risk_ranking", "schema_validation">>)
    /\ Len(ran.calls) = 4
    /\ ran.calls[2].task = "risk_ranking"
    /\ ran.calls[2].ret = "r1"
    /\ ran.calls[3].task = "schema_validation"
    /\ ran.calls[3].ret = "r2"
    /\ ran.calls[4].fn = "summarize"
    /\ ran.calls[4].processing["risk_ranking"] = "r1"
    /\ ran.calls[4].processing["schema_validation"] = "r2"

----------------------------------------------------------------------------
(* The simulation agent (checked under SpecSim) *)

\* Whether a reply holds a number.
Parses(raw) == _parse_cooling_rate_from_response(raw) # [none |-> TRUE]

\* v lies in [0.1, 100.0].
InRange(v) == ~RatLess(v, Rat(1, 10)) /\ ~RatLess(Rat(100, 1), v)

\* C26: get_llm_suggestion makes at most MAX_PARSE_ATTEMPTS LLM calls and
\* no call after a reply that parses; it returns the number of the first
\* reply that parses, brought into [0.1, 100.0], or 12.0 when none of the
\* MAX_PARSE_ATTEMPTS replies parses; what it returns lies in [0.1, 100.0].
C26_SuggestionBounded ==
    simOp.op = "get_llm_suggestion" =>
        /\ simOp.calls <= MAX_PARSE_ATTEMPTS
        /\ Len(simOp.raws) <= simOp.calls
        /\ \A k \in 1..(Len(simOp.raws) - 1) : ~Parses(simOp.raws[k])
        /\ simOp.status = "ok" =>
              LET n == Len(simOp.raws)
              IN  /\ n = simOp.calls
                  /\ n >= 1
                  /\ InRange(simOp.value)
                  /\ IF Parses(simOp.raws[n])
                     THEN LET v == _parse_cooling_rate_from_response(simOp.raws[n]).value
                          IN  /\ InRange(v) => simOp.value = v
                              /\ RatLess(v, Rat(1, 10)) => simOp.value = Rat(1, 10)
                              /\ RatLess(Rat(100, 1), v) => simOp.value = Rat(100, 1)
                     ELSE /\ n = MAX_PARSE_ATTEMPTS
                          /\ simOp.value = Rat(12, 1)

\* C26 witness: the first reply holds no number, the second says 250, and
\* 100.0 is returned after two calls.
C26_Witness ==
    /\ simOp.op = "get_llm_suggestion"
    /\ simOp.status = "ok"
    /\ simOp.raws = <<"abc", "250">>
    /\ simOp.calls = 2
    /\ simOp.value = Rat(100, 1)

----------------------------------------------------------------------------
(* Termination of _chunk (checked under SpecChunk) *)

\* C28: with chunk_size > overlap >= 0 every iteration of the loop of _chunk
\* moves the window start strictly forward and never beyond the end of the
\* text, appends a chunk that is not empty, and, when its window reaches the
\* end of the text, sets the start to len(text), so that the loop ends; the
\* number of chunks never exceeds len(text).
C28_ChunkTerminates ==
    [][(pc = "loop" /\ WellFormed /\ chunks' # chunks) =>
        /\ i < Len(text)
        /\ i' > i
        /\ i' <= Len(text)
        /\ Len(chunks') = Len(chunks) + 1
        /\ Len(chunks') <= Len(text)
        /\ chunks'[Len(chunks')].content # ""
        /\ (i + chunk_size >= Len(text)) => i' = Len(text)
        /\ (i + chunk_size < Len(text)) => i' < Len(text)]_vars

\* C28 witness: "ababb" cut with chunk_size 2 and overlap 1 has returned
\* after four iterations, the windows starting at 0, 1, 2 and 3.
C28_Witness ==
    /\ pc = "returned"
    /\ text = "ababb"
    /\ chunk_size = 2
    /\ overlap = 1
    /\ i = 5
    /\ Len(chunks) = 4
    /\ chunks[4].content = "bb"

----------------------------------------------------------------------------
(* Search among other threads (checked under SpecThreads) *)

\* The entry now at position j of the store is the one whose vector gave the
\* score the search holds for position j.
ScoredFromEntryAt(j) ==
    /\ j <= Len(_STORE)
    /\ Len(_STORE[j].vector) = Len(searcher.q_vec)
    /\ Score(_STORE[j].vector, searcher.q_vec) = searcher.scores[j]

\* C29: whatever clear() and index() calls of other threads come between
\* the steps of a search, the search does not end in an index or shape
\* error, and each result it returns carries the score that the vector of
\* the very entry it was read from gave.
C29_ResultsPairedUnderInterleaving ==
    [][(searcher.pc # "done" /\ searcher'.pc = "done") =>
        /\ searcher'.status \notin {"ValueError", "IndexError"}
        /\ (searcher.pc = "collect" /\ searcher'.status = "ok") =>
              \A k \in 1..Len(searcher.indices) :
                  ScoredFromEntryAt(searcher.indices[k])]_vars

----------------------------------------------------------------------------
(* The Anthropic path of ask (checked under SpecAgent) *)

\* C30: a call of ask() with the Anthropic provider leaves the store as it
\* was and makes a web-search request exactly when the store was empty at
\* the call; a search of a non-empty store with top_k = 5 that returns has
\* at least one result, so that on a non-empty store the first search is
\* followed by the second one, inside complete_with_knowledge, and by no
\* web search.
C30_WebSearchIffStoreEmpty ==
    [][(asked = NoAsk /\ asked'.op = "ask" /\ asked'.provider = "anthropic") =>
        /\ _STORE' = _STORE
        /\ IsIn("web_search", asked'.requests) <=> _STORE = <<>>
        /\ _STORE = <<>> => ~IsIn("complete", asked'.requests)
        /\ _STORE # <<>> =>
              /\ \A found \in search_runs(_STORE, asked'.query, DEFAULT_TOP_K) :
                    found.status = "ok" => Len(found.results) >= 1
              /\ Len(asked'.requests) >= 2 =>
                    /\ asked'.hit
                    /\ asked'.requests[1] = "search"
                    /\ asked'.requests[2] = "search"
              /\ asked'.status = "ok" =>
                    asked'.requests = <<"search", "search", "complete">>]_vars

\* C30 witness: the store holds only chunks whose vectors are zero, so that
\* every score is 0, and ask() with the Anthropic provider still went down
\* the knowledge-base path: two searches, then the completion.
C30_Witness ==
    /\ asked.op = "ask"
    /\ asked.provider = "anthropic"
    /\ _STORE # <<>>
    /\ \A k \in 1..Len(_STORE) : _STORE[k].vector = <<0, 0>>
    /\ asked.requests = <<"search", "search", "complete">>
    /\ asked.status = "ok"
    /\ asked.answer = "answer"

====
